---- MODULE Spec2Model ----
(***************************************************************************)
(* Half-edge mesh graph of plexus: keyed storage, the mutation layer       *)
(* (vertex, edge and face mutations with their caches), the ring           *)
(* circulators and the Replace transaction wrapper.                        *)
(*                                                                         *)
(* Geometry payloads are left out: no operation modelled here branches on  *)
(* a geometric value.  Keys are modelled as the storage models them:       *)
(* vertex, edge and face keys are numbers drawn from the storage's key     *)
(* generator, an arc key is the ordered pair of its endpoint vertex keys.  *)
(***************************************************************************)
EXTENDS Integers, Sequences, FiniteSets, TLC

\* ------------------------------------------------------------------------
\* Bounds of the model
\* ------------------------------------------------------------------------

\* Operations called in a run.
MaxOps == 6

\* A caller inserts vertices only while fewer than this many keys exist.
MaxInsertedVertices == 3

\* Shortest and longest perimeter a caller passes to face insert.
MinPerimeter == 2

MaxPerimeter == 3

\* ------------------------------------------------------------------------
\* Optional keys and results
\* ------------------------------------------------------------------------

\* Option<ArcKey>::None; Some(ab) is the pair <<a, b>>.
NoArc == <<>>

\* Option<VertexKey | EdgeKey | FaceKey>::None; Some(k) is the number k.
NoKey == -1

Ok == "Ok"
TopologyNotFound == "TopologyNotFound"
TopologyMalformed == "TopologyMalformed"
TopologyConflict == "TopologyConflict"
ArityNonUniform == "ArityNonUniform"
\* expect_consistent(), unwrap() or an index out of range: the call panics.
Panic == "Panic"
\* A circulator that never returns: the call does not terminate.
Hang == "Hang"

\* Result<T, GraphError> of a function that works on the mutation m.
Res(e, m, v) == [err |-> e, m |-> m, val |-> v]

IsOk(r) == r.err = Ok

\* The `?` operator: continue with F on success, return the error otherwise.
Then(r, F(_)) == IF r.err = Ok THEN F(r) ELSE r

\* A `for` loop whose body uses `?`: Step(m, x) for each x of s in order,
\* stopping at the first error.
ForEach(m, s, Step(_, _)) ==
    LET f[i \in 0..Len(s)] ==
            IF i = 0 THEN Res(Ok, m, NoKey)
            ELSE LET prev == f[i - 1]
                 IN  IF prev.err # Ok THEN prev ELSE Step(prev.m, s[i])
    IN  f[Len(s)]

\* `let x = value;` followed by code that uses x.
Bind(x, F(_)) == F(x)

Range(s) == {s[i] : i \in 1..Len(s)}

MapPut(f, k, v) == [x \in (DOMAIN f) \cup {k} |-> IF x = k THEN v ELSE f[x]]

MapDel(f, k) == [x \in (DOMAIN f) \ {k} |-> f[x]]

EmptyMap == [x \in {} |-> 0]

\* IteratorExt::perimeter: (x1,x2), (x2,x3), ..., (xn,x1).
Perimeter(s) == [i \in 1..Len(s) |-> <<s[i], s[(i % Len(s)) + 1]>>]

\* ------------------------------------------------------------------------
\* Keyed storage (graph/storage.rs)
\* ------------------------------------------------------------------------

\* Storage::new: the default generator (Key(0)) and an empty map.
Storage_new == [gen |-> 0, map |-> EmptyMap]

\* Generator for Key: next() is the key plus one.
Generator_next(key) == key + 1

\* Storage::insert_with_key: writes the map, leaves the generator alone.
Storage_insert_with_key(s, key, item) == [s EXCEPT !.map = MapPut(s.map, key, item)]

\* Option<&T>::None.
NoItem == "None"

\* Storage::get / get_mut used as a test: is the result Some?
Storage_contains(s, key) == key \in DOMAIN s.map

\* Storage::get: Some(item) or None; never panics.
Storage_get(s, key) == IF key \in DOMAIN s.map THEN s.map[key] ELSE NoItem

\* Storage::get_mut followed by a write through the reference it returns:
\* the item is replaced when the key is present, and nothing happens on None.
Storage_get_mut(s, key, item) ==
    IF key \in DOMAIN s.map THEN [s EXCEPT !.map[key] = item] ELSE s

Storage_len(s) == Cardinality(DOMAIN s.map)

\* An insert that hands out the lowest key without an entry.
Storage_insert_reusing(s, item) ==
    LET key == CHOOSE k \in 0..s.gen : k \notin DOMAIN s.map /\ \A j \in 0..(k - 1) : j \in DOMAIN s.map
    IN  [s |-> [gen |-> Generator_next(s.gen), map |-> MapPut(s.map, key, item)],
         key |-> key]

\* Storage::insert: stores under the generator's key, advances the generator,
\* returns the key.
Storage_insert(s, item) ==
    [s |-> [gen |-> Generator_next(s.gen), map |-> MapPut(s.map, s.gen, item)],
     key |-> s.gen]

\* Storage remove(key): deletes the entry, never touches the generator.
Storage_remove(s, key) == [s EXCEPT !.map = MapDel(s.map, key)]

\* ------------------------------------------------------------------------
\* Payloads and the mesh core
\* ------------------------------------------------------------------------

VertexPayload_new == [arc |-> NoArc]

ArcPayload_new == [next |-> NoArc, previous |-> NoArc, edge |-> NoKey, face |-> NoKey]

EdgePayload_new(ab) == [arc |-> ab]

Face_new(ab) == [arc |-> ab]

\* The four storages of a graph; arcs are keyed by their endpoint pair and
\* need no generator.  This is M::default(), the empty graph.
DefaultCore ==
    [vertices |-> Storage_new, arcs |-> EmptyMap, edges |-> Storage_new, faces |-> Storage_new]

Opposite(ab) == <<ab[2], ab[1]>>

\* ------------------------------------------------------------------------
\* VertexMutation (graph/mutation/vertex.rs)
\* ------------------------------------------------------------------------

insert_vertex(m) ==
    LET r == Storage_insert(m.vertices, VertexPayload_new)
    IN  Res(Ok, [m EXCEPT !.vertices = r.s], r.key)

\* A connect_outgoing_arc that stores the opposite arc.
connect_outgoing_arc_opposite(m, a, ab) ==
    IF ~Storage_contains(m.vertices, a) THEN Res(TopologyNotFound, m, NoArc)
    ELSE Res(Ok, [m EXCEPT !.vertices.map[a].arc = <<ab[2], ab[1]>>], NoArc)

connect_outgoing_arc(m, a, ab) ==
    IF ~Storage_contains(m.vertices, a) THEN Res(TopologyNotFound, m, NoArc)
    ELSE Res(Ok, [m EXCEPT !.vertices.map[a].arc = ab], NoArc)

disconnect_outgoing_arc(m, a) ==
    IF ~Storage_contains(m.vertices, a) THEN Res(TopologyNotFound, m, NoArc)
    ELSE Res(Ok, [m EXCEPT !.vertices.map[a].arc = NoArc], m.vertices.map[a].arc)

\* ------------------------------------------------------------------------
\* EdgeMutation (graph/mutation/edge.rs)
\* ------------------------------------------------------------------------

HasArc(m, ab) == ab \in DOMAIN m.arcs

\* with_arc_mut(ab, |arc| arc.next = Some(bc))?; with_arc_mut(bc, |arc|
\* arc.previous = Some(ab))?
connect_neighboring_arcs(m, ab, bc) ==
    IF ~HasArc(m, ab) THEN Res(TopologyNotFound, m, NoArc)
    ELSE LET m1 == [m EXCEPT !.arcs[ab].next = bc]
         IN  IF ~HasArc(m1, bc) THEN Res(TopologyNotFound, m1, NoArc)
             ELSE Res(Ok, [m1 EXCEPT !.arcs[bc].previous = ab], NoArc)

disconnect_next_arc(m, ab) ==
    IF ~HasArc(m, ab) THEN Res(TopologyNotFound, m, NoArc)
    ELSE LET bx == m.arcs[ab].next
             m1 == [m EXCEPT !.arcs[ab].next = NoArc]
         IN  IF bx = NoArc THEN Res(Ok, m1, bx)
             ELSE IF ~HasArc(m1, bx) THEN Res(TopologyMalformed, m1, NoArc)
             ELSE Res(Ok, [m1 EXCEPT !.arcs[bx].previous = NoArc], bx)

disconnect_previous_arc(m, ab) ==
    IF ~HasArc(m, ab) THEN Res(TopologyNotFound, m, NoArc)
    ELSE LET xa == m.arcs[ab].previous
             m1 == [m EXCEPT !.arcs[ab].previous = NoArc]
         IN  IF xa = NoArc THEN Res(Ok, m1, xa)
             ELSE IF ~HasArc(m1, xa) THEN Res(TopologyMalformed, m1, NoArc)
             ELSE Res(Ok, [m1 EXCEPT !.arcs[xa].next = NoArc], xa)

\* A connect_arc_to_edge that connects only one arc of each pair.
connect_arc_to_edge_one_sided(m, ab, ab_ba) ==
    IF ~HasArc(m, ab) THEN Res(TopologyNotFound, m, NoKey)
    ELSE IF ab[1] > ab[2] THEN Res(Ok, m, NoKey)
    ELSE Res(Ok, [m EXCEPT !.arcs[ab].edge = ab_ba], NoKey)

connect_arc_to_edge(m, ab, ab_ba) ==
    IF ~HasArc(m, ab) THEN Res(TopologyNotFound, m, NoKey)
    ELSE Res(Ok, [m EXCEPT !.arcs[ab].edge = ab_ba], NoKey)

connect_arc_to_face(m, ab, abc) ==
    IF ~HasArc(m, ab) THEN Res(TopologyNotFound, m, NoKey)
    ELSE Res(Ok, [m EXCEPT !.arcs[ab].face = abc], NoKey)

\* A disconnect_arc_from_face that leaves the face of the arc in place.
disconnect_arc_from_face_keeping(m, ab) ==
    IF ~HasArc(m, ab) THEN Res(TopologyNotFound, m, NoKey) ELSE Res(Ok, m, NoKey)

disconnect_arc_from_face(m, ab) ==
    IF ~HasArc(m, ab) THEN Res(TopologyNotFound, m, NoKey)
    ELSE Res(Ok, [m EXCEPT !.arcs[ab].face = NoKey], m.arcs[ab].face)

\* The inner function of get_or_insert_edge_with.  val is (arc.edge, ab);
\* the result of connect_outgoing_arc is dropped (`let _ = ...`).
get_or_insert_arc_with(m, a, b) ==
    LET ab == <<a, b>>
    IN  IF HasArc(m, ab) THEN Res(Ok, m, [edge |-> m.arcs[ab].edge, arc |-> ab])
        ELSE LET m1 == [m EXCEPT !.arcs = MapPut(m.arcs, ab, ArcPayload_new)]
                 m2 == connect_outgoing_arc(m1, a, ab).m
             IN  Res(Ok, m2, [edge |-> NoKey, arc |-> ab])

\* A get_or_insert_edge_with that answers with the edge of either arc when
\* the two arcs are not bound to the same edge.
get_or_insert_edge_with_either(m, a, b) ==
    Bind(get_or_insert_arc_with(m, a, b), LAMBDA r1 :
    Bind(get_or_insert_arc_with(r1.m, b, a), LAMBDA r2 :
        LET e1 == r1.val.edge
            e2 == r2.val.edge
            ab == r1.val.arc
            ba == r2.val.arc
        IN  IF e1 # NoKey
            THEN Res(Ok, r2.m, [edge |-> e1, ab |-> ab, ba |-> ba])
            ELSE IF e2 # NoKey
            THEN Res(Ok, r2.m, [edge |-> e2, ab |-> ab, ba |-> ba])
            ELSE Bind(Storage_insert(r2.m.edges, EdgePayload_new(ab)), LAMBDA ins :
                     Then(Then(connect_arc_to_edge([r2.m EXCEPT !.edges = ins.s], ab, ins.key),
                               LAMBDA r : connect_arc_to_edge(r.m, ba, ins.key)),
                          LAMBDA r : Res(Ok, r.m, [edge |-> ins.key, ab |-> ab, ba |-> ba])))))

\* val is the composite key (edge, (ab, ba)).
get_or_insert_edge_with(m, a, b) ==
    Bind(get_or_insert_arc_with(m, a, b), LAMBDA r1 :
    Bind(get_or_insert_arc_with(r1.m, b, a), LAMBDA r2 :
        LET e1 == r1.val.edge
            e2 == r2.val.edge
            ab == r1.val.arc
            ba == r2.val.arc
        IN  IF e1 # NoKey /\ e2 # NoKey /\ e1 = e2
            THEN Res(Ok, r2.m, [edge |-> e1, ab |-> ab, ba |-> ba])
            ELSE IF e1 = NoKey /\ e2 = NoKey
            THEN Bind(Storage_insert(r2.m.edges, EdgePayload_new(ab)), LAMBDA ins :
                     Then(Then(connect_arc_to_edge([r2.m EXCEPT !.edges = ins.s], ab, ins.key),
                               LAMBDA r : connect_arc_to_edge(r.m, ba, ins.key)),
                          LAMBDA r : Res(Ok, r.m, [edge |-> ins.key, ab |-> ab, ba |-> ba])))
            ELSE Res(TopologyMalformed, r2.m, NoKey)))

\* ------------------------------------------------------------------------
\* Circulators (graph/face.rs) and the arcs around a vertex
\* ------------------------------------------------------------------------

\* A walk that has emitted more keys than this has entered a cycle that
\* does not contain its first key and never stops.
Fuel(m) == Cardinality(DOMAIN m.arcs) + 1

SelectFirst(s, P(_)) ==
    LET idx == {i \in 1..Len(s) : P(s[i])}
    IN  IF idx = {} THEN NoArc ELSE s[CHOOSE i \in idx : \A j \in idx : i <= j]

\* ArcCirculator::next called until it returns None: stops when there is no
\* current arc or when the current arc is the first one recorded by the
\* trace; otherwise emits the arc and moves to its next link (None when the
\* arc is not in storage).
RECURSIVE ArcCirculator_walk(_, _, _, _, _)
ArcCirculator_walk(m, arc, first, acc, fuel) ==
    IF arc = NoArc THEN [keys |-> acc, diverges |-> FALSE]
    ELSE IF acc # <<>> /\ arc = first THEN [keys |-> acc, diverges |-> FALSE]
    ELSE IF fuel = 0 THEN [keys |-> acc, diverges |-> TRUE]
    ELSE ArcCirculator_walk(m, IF HasArc(m, arc) THEN m.arcs[arc].next ELSE NoArc,
                            first, Append(acc, arc), fuel - 1)

ArcCirculator_next(m, start) == ArcCirculator_walk(m, start, start, <<>>, Fuel(m))

\* Longest prefix of s whose elements satisfy P: an Iterator whose next()
\* binds a view ends at the first key that is not in storage.
TakeWhile(s, P(_)) ==
    LET bad == {i \in 1..Len(s) : ~P(s[i])}
    IN  IF bad = {} THEN s
        ELSE SubSeq(s, 1, (CHOOSE i \in bad : \A j \in bad : i <= j) - 1)

\* Iterator for ArcCirculator<&M>: the keys of the arc views it yields.
interior_arcs(m, start) ==
    TakeWhile(ArcCirculator_next(m, start).keys, LAMBDA ab : HasArc(m, ab))

\* Iterator for VertexCirculator<&M>: the destination vertex of each arc.
vertices(m, start) ==
    LET keys == ArcCirculator_next(m, start).keys
    IN  TakeWhile([i \in 1..Len(keys) |-> keys[i][2]],
                  LAMBDA b : Storage_contains(m.vertices, b))

Diverges(m, start) == ArcCirculator_next(m, start).diverges

\* DynamicArity::arity: interior_arcs().count().
arity(m, start) == Len(interior_arcs(m, start))

\* The circulator over the arcs around a vertex: from the leading arc, the
\* opposite arc is an incoming arc and its next arc is the following
\* outgoing arc, until the leading arc comes around again.
RECURSIVE VertexArcCirculator_walk(_, _, _, _, _)
VertexArcCirculator_walk(m, outgoing, breadcrumb, acc, fuel) ==
    IF outgoing = NoArc \/ breadcrumb = NoArc THEN [keys |-> acc, diverges |-> FALSE]
    ELSE IF fuel = 0 THEN [keys |-> acc, diverges |-> TRUE]
    ELSE LET incoming == Opposite(outgoing)
         IN  IF ~HasArc(m, incoming) THEN [keys |-> acc, diverges |-> FALSE]
             ELSE LET nxt == m.arcs[incoming].next
                  IN  IF nxt = breadcrumb
                      THEN [keys |-> Append(acc, incoming), diverges |-> FALSE]
                      ELSE VertexArcCirculator_walk(m, nxt, breadcrumb,
                                                    Append(acc, incoming), fuel - 1)

VertexArcCirculator_next(m, a) ==
    LET leading == m.vertices.map[a].arc
    IN  VertexArcCirculator_walk(m, leading, leading, <<>>, Fuel(m))

reachable_incoming_arcs(m, a) == VertexArcCirculator_next(m, a).keys

reachable_outgoing_arcs(m, a) ==
    LET inc == reachable_incoming_arcs(m, a)
    IN  SelectSeq([i \in 1..Len(inc) |-> Opposite(inc[i])], LAMBDA ab : HasArc(m, ab))

\* ------------------------------------------------------------------------
\* FaceMutation (graph/mutation/face.rs)
\* ------------------------------------------------------------------------

HasFace(m, abc) == Storage_contains(m.faces, abc)

is_boundary_arc(m, ab) == m.arcs[ab].face = NoKey

connect_face_to_arc(m, ab, abc) ==
    IF ~HasFace(m, abc) THEN Res(TopologyNotFound, m, NoKey)
    ELSE Res(Ok, [m EXCEPT !.faces.map[abc].arc = ab], NoKey)

connect_face_interior(m, arcs, face) ==
    ForEach(m, Perimeter(arcs),
            LAMBDA mm, p : Then(connect_neighboring_arcs(mm, p[1], p[2]),
                                LAMBDA r : connect_arc_to_face(r.m, p[1], face)))

disconnect_face_interior(m, arcs) ==
    ForEach(m, arcs, LAMBDA mm, ab : disconnect_arc_from_face(mm, ab))

\* The neighbors (ax, xb) that connect_face_exterior finds for the opposite
\* arc ba of the interior arc ab; NoArc when it has none.
exterior_neighbors(m, ab, incoming, outgoing) ==
    LET a == ab[1]
        b == ab[2]
        ba == Opposite(ab)
        boundary(k) == is_boundary_arc(m, k)
        opposite_of(k) == IF k # NoArc /\ HasArc(m, k) /\ HasArc(m, Opposite(k))
                          THEN Opposite(k) ELSE NoArc
        first_ax == SelectFirst(SelectSeq(outgoing[a], LAMBDA k : HasArc(m, k)), boundary)
        first_xb == SelectFirst(SelectSeq(incoming[b], LAMBDA k : HasArc(m, k)), boundary)
        ax == IF first_ax # NoArc THEN first_ax
              ELSE IF HasArc(m, ab) THEN opposite_of(m.arcs[ab].previous) ELSE NoArc
        xb == IF first_xb # NoArc THEN first_xb
              ELSE IF HasArc(m, ab) THEN opposite_of(m.arcs[ab].next) ELSE NoArc
    IN  IF is_boundary_arc(m, ba) /\ ax # NoArc /\ xb # NoArc
        THEN [ax |-> ax, xb |-> xb]
        ELSE NoArc

connect_face_exterior(m, arcs, incoming, outgoing) ==
    ForEach(m, arcs,
            LAMBDA mm, ab :
                IF ~HasArc(mm, Opposite(ab)) THEN Res(TopologyMalformed, mm, NoKey)
                ELSE Bind(exterior_neighbors(mm, ab, incoming, outgoing), LAMBDA n :
                         IF n = NoArc THEN Res(Ok, mm, NoKey)
                         ELSE Then(connect_neighboring_arcs(mm, Opposite(ab), n.ax),
                                   LAMBDA r : connect_neighboring_arcs(r.m, n.xb, Opposite(ab)))))

\* A snapshot that does not ask whether the perimeter bisects a ring.
FaceInsertCache_snapshot_without_bisection(m, perimeter) ==
    LET set == Range(perimeter)
        spans == Perimeter(perimeter)
    IN  IF Cardinality(set) # Len(perimeter) THEN Res(TopologyMalformed, m, NoKey)
        ELSE IF \E key \in set : ~Storage_contains(m.vertices, key)
        THEN Res(TopologyNotFound, m, NoKey)
        ELSE IF \E i \in 1..Len(spans) :
                    HasArc(m, spans[i]) /\ m.arcs[spans[i]].face # NoKey
        THEN Res(TopologyConflict, m, NoKey)
        ELSE IF \E key \in set : VertexArcCirculator_next(m, key).diverges
        THEN Res(Hang, m, NoKey)
        ELSE Res(Ok, m, [perimeter |-> perimeter,
                         incoming |-> [key \in set |-> reachable_incoming_arcs(m, key)],
                         outgoing |-> [key \in set |-> reachable_outgoing_arcs(m, key)]])

\* FaceInsertCache::snapshot.  val is the cache: the perimeter and the
\* incoming and outgoing arcs of each of its vertices.
FaceInsertCache_snapshot(m, perimeter) ==
    LET arity_ == Len(perimeter)
        set == Range(perimeter)
        existing == SelectSeq(perimeter, LAMBDA key : Storage_contains(m.vertices, key))
        spans == Perimeter(perimeter)
        conflict(p) ==
            LET previous == p[1]
                next == p[2]
            IN  /\ HasArc(m, previous)
                /\ \/ m.arcs[previous].face # NoKey
                   \/ /\ ~HasArc(m, next)
                      /\ m.arcs[previous].next # NoArc
                      /\ HasArc(m, m.arcs[previous].next)
                      /\ m.arcs[previous].next[2] \in set
    IN  IF Cardinality(set) # arity_ THEN Res(TopologyMalformed, m, NoKey)
        ELSE IF Len(existing) # arity_ THEN Res(TopologyNotFound, m, NoKey)
        ELSE IF \E i \in 1..Len(spans) : conflict(Perimeter(spans)[i])
        THEN Res(TopologyConflict, m, NoKey)
        ELSE IF \E key \in set : VertexArcCirculator_next(m, key).diverges
        THEN Res(Hang, m, NoKey)
        ELSE Res(Ok, m, [perimeter |-> perimeter,
                         incoming |-> [key \in set |-> reachable_incoming_arcs(m, key)],
                         outgoing |-> [key \in set |-> reachable_outgoing_arcs(m, key)]])

\* insert_with: get or insert the perimeter's edges, insert the face on the
\* first arc, connect the interior and then the exterior.  val is the face key.
insert_with(m, cache) ==
    Bind(ForEach(m, Perimeter(cache.perimeter),
                 LAMBDA mm, ab : get_or_insert_edge_with(mm, ab[1], ab[2])),
         LAMBDA edges :
             LET arcs == Perimeter(cache.perimeter)
             IN  IF edges.err # Ok THEN edges
                 ELSE IF arcs = <<>> THEN Res(Panic, edges.m, NoKey)
                 ELSE Bind(Storage_insert(edges.m.faces, Face_new(arcs[1])), LAMBDA ins :
                          Then(Then(connect_face_interior([edges.m EXCEPT !.faces = ins.s],
                                                          arcs, ins.key),
                                    LAMBDA r : connect_face_exterior(r.m, arcs, cache.incoming,
                                                                     cache.outgoing)),
                               LAMBDA r : Res(Ok, r.m, ins.key))))

\* FaceRemoveCache::snapshot.  val is the cache: the face key and the keys of
\* its interior arcs.
FaceRemoveCache_snapshot(m, abc) ==
    IF ~HasFace(m, abc) THEN Res(TopologyNotFound, m, NoKey)
    ELSE IF Diverges(m, m.faces.map[abc].arc) THEN Res(Hang, m, NoKey)
    ELSE Res(Ok, m, [abc |-> abc, arcs |-> interior_arcs(m, m.faces.map[abc].arc)])

\* remove: disconnect the interior arcs from the face, delete the payload.
remove(m, cache) ==
    Then(disconnect_face_interior(m, cache.arcs),
         LAMBDA r : IF ~HasFace(r.m, cache.abc) THEN Res(TopologyNotFound, r.m, NoKey)
                    ELSE Res(Ok, [r.m EXCEPT !.faces = Storage_remove(r.m.faces, cache.abc)],
                             r.m.faces.map[cache.abc]))

\* ------------------------------------------------------------------------
\* Edge caches and commit functions (graph/mutation/edge.rs)
\* ------------------------------------------------------------------------

NoCache == [none |-> TRUE]

\* ArcRemoveCache::snapshot.  opposite_arc(), previous_arc() and next_arc()
\* panic when the link is unset or names no arc; xa and bx are None when they
\* are the opposite arc.
ArcRemoveCache_snapshot(m, ab) ==
    IF ~HasArc(m, ab) THEN Res(TopologyNotFound, m, NoKey)
    ELSE LET ba == Opposite(ab)
             xa == m.arcs[ab].previous
             bx == m.arcs[ab].next
             face == m.arcs[ab].face
         IN  IF ~HasArc(m, ba) \/ xa = NoArc \/ bx = NoArc \/ ~HasArc(m, xa) \/ ~HasArc(m, bx)
             THEN Res(Panic, m, NoKey)
             ELSE LET cache == IF face # NoKey /\ HasFace(m, face)
                               THEN FaceRemoveCache_snapshot(m, face)
                               ELSE Res(Ok, m, NoCache)
                  IN  Then(cache,
                           LAMBDA r : Res(Ok, m, [ab |-> ab,
                                                  xa |-> IF xa # ba THEN xa ELSE NoArc,
                                                  bx |-> IF bx # ba THEN bx ELSE NoArc,
                                                  cache |-> r.val]))

\* EdgeRemoveCache::snapshot.
EdgeRemoveCache_snapshot(m, ab) ==
    IF ~HasArc(m, ab) THEN Res(TopologyNotFound, m, NoKey)
    ELSE LET a == ab[1]
             b == ab[2]
             ba == Opposite(ab)
             ab_ba == m.arcs[ab].edge
         IN  IF \/ ~Storage_contains(m.vertices, a)
                \/ ~Storage_contains(m.vertices, b)
                \/ ~HasArc(m, ba)
                \/ ab_ba = NoKey
                \/ ~Storage_contains(m.edges, ab_ba)
             THEN Res(Panic, m, NoKey)
             ELSE Then(ArcRemoveCache_snapshot(m, ab), LAMBDA arc :
                  Then(ArcRemoveCache_snapshot(m, ba), LAMBDA opposite :
                       Res(Ok, m, [a |-> a, b |-> b, ab_ba |-> ab_ba,
                                   arc |-> arc.val, opposite |-> opposite.val])))

\* The inner function of remove_with_cache: remove the arc's face, if it has
\* one, and then the arc.
remove_arc_with_cache(m, cache) ==
    LET faced == IF cache.cache = NoCache THEN Res(Ok, m, NoKey) ELSE remove(m, cache.cache)
    IN  Then(faced,
             LAMBDA r : IF ~HasArc(r.m, cache.ab) THEN Res(TopologyNotFound, r.m, NoKey)
                        ELSE Res(Ok, [r.m EXCEPT !.arcs = MapDel(r.m.arcs, cache.ab)], NoKey))

\* remove_with_cache: give each endpoint a remaining outgoing arc, connect
\* the neighbors across the edge, delete the edge and both arcs.
remove_with_cache(m, cache) ==
    LET a == cache.a
        b == cache.b
        arc == cache.arc
        opposite == cache.opposite
        s1 == IF opposite.bx # NoArc THEN connect_outgoing_arc(m, a, opposite.bx)
              ELSE Res(Ok, m, NoKey)
        s2 == Then(s1, LAMBDA r : IF arc.bx # NoArc THEN connect_outgoing_arc(r.m, b, arc.bx)
                                  ELSE Res(Ok, r.m, NoKey))
        s3 == Then(s2, LAMBDA r : IF arc.xa # NoArc /\ opposite.bx # NoArc
                                  THEN connect_neighboring_arcs(r.m, arc.xa, opposite.bx)
                                  ELSE Res(Ok, r.m, NoKey))
        s4 == Then(s3, LAMBDA r : IF opposite.xa # NoArc /\ arc.bx # NoArc
                                  THEN connect_neighboring_arcs(r.m, opposite.xa, arc.bx)
                                  ELSE Res(Ok, r.m, NoKey))
        s5 == Then(s4, LAMBDA r : IF ~Storage_contains(r.m.edges, cache.ab_ba)
                                  THEN Res(TopologyNotFound, r.m, NoKey)
                                  ELSE Res(Ok, [r.m EXCEPT !.edges =
                                                   Storage_remove(r.m.edges, cache.ab_ba)], NoKey))
        s6 == Then(s5, LAMBDA r : remove_arc_with_cache(r.m, arc))
    IN  Then(s6, LAMBDA r : remove_arc_with_cache(r.m, opposite))

\* EdgeSplitCache::snapshot.
EdgeSplitCache_snapshot(m, ab) ==
    IF ~HasArc(m, ab) THEN Res(TopologyNotFound, m, NoKey)
    ELSE IF ~HasArc(m, Opposite(ab)) THEN Res(TopologyMalformed, m, NoKey)
    ELSE IF ~Storage_contains(m.vertices, ab[1]) THEN Res(TopologyMalformed, m, NoKey)
    ELSE IF ~Storage_contains(m.vertices, ab[2]) THEN Res(TopologyMalformed, m, NoKey)
    ELSE IF m.arcs[ab].edge = NoKey \/ ~Storage_contains(m.edges, m.arcs[ab].edge)
    THEN Res(TopologyNotFound, m, NoKey)
    ELSE Res(Ok, m, [a |-> ab[1], b |-> ab[2], ab |-> ab, ba |-> Opposite(ab),
                     ab_ba |-> m.arcs[ab].edge])

\* The inner function `remove` of split_with_cache: take the arc out of the
\* mesh; val is its payload with the links it had.
split_remove(m, ab) ==
    Then(disconnect_outgoing_arc(m, ab[1]), LAMBDA s1 :
    Then(disconnect_previous_arc(s1.m, ab), LAMBDA xa :
    Then(disconnect_next_arc(xa.m, ab), LAMBDA bx :
         Res(Ok, [bx.m EXCEPT !.arcs = MapDel(bx.m.arcs, ab)],
             [bx.m.arcs[ab] EXCEPT !.previous = xa.val, !.next = bx.val]))))

\* The inner function split_at_vertex of split_with_cache.
split_at_vertex(m, a, b, mk, ab) ==
    Then(split_remove(m, ab), LAMBDA removed :
        LET next == removed.val.next
            previous == removed.val.previous
            face == removed.val.face
            am == <<a, mk>>
            mb == <<mk, b>>
            s1 == get_or_insert_edge_with(removed.m, a, mk)
            s2 == Then(s1, LAMBDA r : get_or_insert_edge_with(r.m, mk, b))
            s3 == Then(s2, LAMBDA r : connect_neighboring_arcs(r.m, am, mb))
            s4 == Then(s3, LAMBDA r : IF previous # NoArc
                                      THEN connect_neighboring_arcs(r.m, previous, am)
                                      ELSE Res(Ok, r.m, NoKey))
            s5 == Then(s4, LAMBDA r : IF next # NoArc
                                      THEN connect_neighboring_arcs(r.m, mb, next)
                                      ELSE Res(Ok, r.m, NoKey))
            s6 == Then(s5, LAMBDA r : IF face # NoKey THEN connect_face_to_arc(r.m, am, face)
                                      ELSE Res(Ok, r.m, NoKey))
            s7 == Then(s6, LAMBDA r : IF face # NoKey THEN connect_arc_to_face(r.m, am, face)
                                      ELSE Res(Ok, r.m, NoKey))
        IN  Then(s7, LAMBDA r : IF face # NoKey THEN connect_arc_to_face(r.m, mb, face)
                                ELSE Res(Ok, r.m, NoKey)))

\* split_with_cache: insert the vertex, delete the edge, split both arcs.
\* val is the key of the new vertex.
split_with_cache(m, cache) ==
    Bind(insert_vertex(m), LAMBDA v :
        LET s1 == IF ~Storage_contains(v.m.edges, cache.ab_ba)
                  THEN Res(TopologyMalformed, v.m, NoKey)
                  ELSE Res(Ok, [v.m EXCEPT !.edges = Storage_remove(v.m.edges, cache.ab_ba)],
                           NoKey)
            s2 == Then(s1, LAMBDA r : split_at_vertex(r.m, cache.a, cache.b, v.val, cache.ab))
            s3 == Then(s2, LAMBDA r : split_at_vertex(r.m, cache.b, cache.a, v.val, cache.ba))
        IN  Then(s3, LAMBDA r : Res(Ok, r.m, v.val)))

\* Mutation::insert_face: snapshot the perimeter, then insert_with.
insert_face(m, perimeter) ==
    Then(FaceInsertCache_snapshot(m, perimeter), LAMBDA r : insert_with(m, r.val))

\* A snapshot that does not look at the faces of the arcs.
ArcBridgeCache_snapshot_unchecked(m, source, destination) ==
    IF ~HasArc(m, source) \/ ~HasArc(m, destination) THEN Res(TopologyNotFound, m, NoKey)
    ELSE IF \E k \in {source[1], source[2], destination[1], destination[2]} :
                ~Storage_contains(m.vertices, k)
    THEN Res(TopologyMalformed, m, NoKey)
    ELSE Res(Ok, m, [a |-> source[1], b |-> source[2],
                     c |-> destination[1], d |-> destination[2]])

\* ArcBridgeCache::snapshot: every arc of the perimeter a, b, c, d that
\* exists must be a boundary arc.
ArcBridgeCache_snapshot(m, source, destination) ==
    IF ~HasArc(m, source) \/ ~HasArc(m, destination) THEN Res(TopologyNotFound, m, NoKey)
    ELSE LET a == source[1]
             b == source[2]
             c == destination[1]
             d == destination[2]
             spans == Perimeter(<<a, b, c, d>>)
         IN  IF \E k \in {a, b, c, d} : ~Storage_contains(m.vertices, k)
             THEN Res(TopologyMalformed, m, NoKey)
             ELSE IF \E i \in 1..4 : HasArc(m, spans[i]) /\ ~is_boundary_arc(m, spans[i])
             THEN Res(TopologyConflict, m, NoKey)
             ELSE Res(Ok, m, [a |-> a, b |-> b, c |-> c, d |-> d])

\* bridge_with_cache: insert the face a, b, c, d.
bridge_with_cache(m, cache) ==
    insert_face(m, <<cache.a, cache.b, cache.c, cache.d>>)

\* ArcExtrudeCache::snapshot.
ArcExtrudeCache_snapshot(m, ab) ==
    IF ~HasArc(m, ab) THEN Res(TopologyNotFound, m, NoKey)
    ELSE IF ~is_boundary_arc(m, ab) THEN Res(TopologyConflict, m, NoKey)
    ELSE IF ~Storage_contains(m.vertices, ab[2]) \/ ~Storage_contains(m.vertices, ab[1])
    THEN Res(TopologyConflict, m, NoKey)
    ELSE Res(Ok, m, [ab |-> ab])

\* extrude_with_cache: insert c and d and the edge between them, then bridge
\* ab to cd.  val is the arc cd.
extrude_with_cache(m, cache) ==
    Bind(insert_vertex(m), LAMBDA vc :
    Bind(insert_vertex(vc.m), LAMBDA vd :
        LET cd == <<vc.val, vd.val>>
            s1 == get_or_insert_edge_with(vd.m, vc.val, vd.val)
            s2 == Then(s1, LAMBDA r : ArcBridgeCache_snapshot(r.m, cache.ab, cd))
            s3 == Then(s2, LAMBDA r : bridge_with_cache(r.m, r.val))
        IN  Then(s3, LAMBDA r : Res(Ok, r.m, cd))))

\* ------------------------------------------------------------------------
\* Ring distance (graph/face.rs) and the face caches and commit functions
\* (graph/mutation/face.rs)
\* ------------------------------------------------------------------------

ByKey(key) == [by |-> "key", at |-> key]

ByIndex(index) == [by |-> "index", at |-> index]

\* Position of the first element of s equal to x, counted from 0; -1 if none.
IndexOf(s, x) ==
    LET idx == {i \in 1..Len(s) : s[i] = x}
    IN  IF idx = {} THEN -1 ELSE (CHOOSE i \in idx : \A j \in idx : i <= j) - 1

Abs(x) == IF x < 0 THEN -x ELSE x

Min(x, y) == IF x <= y THEN x ELSE y

\* The closure index_of_selector of Ringoid::distance; -1 is the error.
index_of_selector(m, start, selector) ==
    IF selector.by = "key" THEN IndexOf(vertices(m, start), selector.at)
    ELSE IF selector.at >= arity(m, start) THEN -1
    ELSE selector.at

\* A distance that always counts in one direction around the ring.
distance_one_way(m, start, source, destination) ==
    LET i == index_of_selector(m, start, source)
        j == index_of_selector(m, start, destination)
    IN  IF i = -1 \/ j = -1 THEN Res(TopologyNotFound, m, NoKey)
        ELSE Res(Ok, m, Abs(i - j))

\* Ringoid::distance on the ring of the arc `start`.
distance(m, start, source, destination) ==
    LET n == arity(m, start)
        i == index_of_selector(m, start, source)
        j == index_of_selector(m, start, destination)
        difference == Abs(i - j)
    IN  IF i = -1 \/ j = -1 THEN Res(TopologyNotFound, m, NoKey)
        ELSE Res(Ok, m, Min(difference, n - difference))

\* perimeter.tuple_windows().skip_while(|(_, b)| b != from)
\*          .take_while(|(a, _)| a != to).map(|(_, b)| b)
\* over the endlessly repeated vertex keys vs.
Walk(vs, from, to) ==
    LET n == Len(vs)
        at(i) == vs[((i - 1) % n) + 1]
        start == CHOOSE i \in 2..(n + 1) : at(i) = from /\ \A j \in 2..(i - 1) : at(j) # from
        stops == {k \in 0..n : at(start + k - 1) = to}
        count == IF stops = {} THEN n ELSE CHOOSE k \in stops : \A j \in stops : k <= j
    IN  [k \in 1..count |-> at(start + k - 1)]

\* FaceSplitCache::snapshot: source and destination are vertex keys.
FaceSplitCache_snapshot(m, abc, source, destination) ==
    IF ~HasFace(m, abc) THEN Res(TopologyNotFound, m, NoKey)
    ELSE IF Diverges(m, m.faces.map[abc].arc) THEN Res(Hang, m, NoKey)
    ELSE Bind(vertices(m, m.faces.map[abc].arc), LAMBDA vs :
         Then(distance(m, m.faces.map[abc].arc, ByKey(source), ByKey(destination)), LAMBDA d :
              IF d.val <= 1 THEN Res(TopologyMalformed, m, NoKey)
              ELSE Then(FaceRemoveCache_snapshot(m, abc),
                        LAMBDA r : Res(Ok, m, [cache |-> r.val,
                                               left |-> Walk(vs, source, destination),
                                               right |-> Walk(vs, destination, source)]))))

\* split: remove the face, snapshot both perimeters, insert both faces.
\* val is the arc from left[0] to right[0].
split(m, cache) ==
    Then(remove(m, cache.cache), LAMBDA s1 :
        IF cache.left = <<>> \/ cache.right = <<>> THEN Res(Panic, s1.m, NoKey)
        ELSE Then(FaceInsertCache_snapshot(s1.m, cache.left), LAMBDA left :
             Then(FaceInsertCache_snapshot(s1.m, cache.right), LAMBDA right :
             Then(insert_with(s1.m, left.val), LAMBDA s4 :
             Then(insert_with(s4.m, right.val), LAMBDA s5 :
                  Res(Ok, s5.m, <<cache.left[1], cache.right[1]>>))))))

\* FacePokeCache::snapshot.
FacePokeCache_snapshot(m, abc) ==
    IF ~HasFace(m, abc) THEN Res(TopologyNotFound, m, NoKey)
    ELSE Then(FaceRemoveCache_snapshot(m, abc),
              LAMBDA r : Res(Ok, m, [vertices |-> vertices(m, m.faces.map[abc].arc),
                                     cache |-> r.val]))

\* poke_with: remove the face, insert the vertex c, insert a triangle a, b, c
\* for each arc of the old perimeter.  val is c.
poke_with(m, cache) ==
    Then(remove(m, cache.cache), LAMBDA s1 :
    Then(insert_vertex(s1.m), LAMBDA c :
    Then(ForEach(c.m, Perimeter(cache.vertices),
                 LAMBDA mm, p : insert_face(mm, <<p[1], p[2], c.val>>)),
         LAMBDA r : Res(Ok, r.m, c.val))))

\* A snapshot that does not compare the arities.
FaceBridgeCache_snapshot_any_arity(m, source, destination) ==
    Then(FaceRemoveCache_snapshot(m, source), LAMBDA c1 :
    Then(FaceRemoveCache_snapshot(m, destination), LAMBDA c2 :
         Res(Ok, m, [source |-> c1.val.arcs, destination |-> c2.val.arcs,
                     cache |-> <<c1.val, c2.val>>])))

\* FaceBridgeCache::snapshot.
FaceBridgeCache_snapshot(m, source, destination) ==
    Then(FaceRemoveCache_snapshot(m, source), LAMBDA c1 :
    Then(FaceRemoveCache_snapshot(m, destination), LAMBDA c2 :
         IF Len(c1.val.arcs) # Len(c2.val.arcs)
         THEN Res(ArityNonUniform, m, NoKey)
         ELSE Res(Ok, m, [source |-> c1.val.arcs, destination |-> c2.val.arcs,
                          cache |-> <<c1.val, c2.val>>])))

Reverse(s) == [i \in 1..Len(s) |-> s[Len(s) + 1 - i]]

\* bridge: remove both faces, bridge each source arc to the destination arc
\* paired with it in reverse order (zip stops at the shorter sequence).
bridge(m, cache) ==
    LET s1 == remove(m, cache.cache[1])
        s2 == Then(s1, LAMBDA r : remove(r.m, cache.cache[2]))
        dst == Reverse(cache.destination)
        shorter == IF Len(cache.source) <= Len(dst) THEN Len(cache.source) ELSE Len(dst)
        pairs == [i \in 1..shorter |-> <<cache.source[i], dst[i]>>]
    IN  Then(s2,
             LAMBDA r : ForEach(r.m, pairs,
                                LAMBDA mm, p : Then(ArcBridgeCache_snapshot(mm, p[1], p[2]),
                                                    LAMBDA q : bridge_with_cache(mm, q.val))))

\* FaceExtrudeCache::snapshot.
FaceExtrudeCache_snapshot(m, abc) ==
    Then(FaceRemoveCache_snapshot(m, abc),
         LAMBDA r : Res(Ok, m, [sources |-> vertices(m, m.faces.map[abc].arc),
                                cache |-> r.val]))

\* Insert n vertices; val is the sequence of their keys.
insert_vertices(m, n) ==
    LET f[i \in 0..n] == IF i = 0 THEN m ELSE insert_vertex(f[i - 1]).m
    IN  Res(Ok, f[n], [i \in 1..n |-> m.vertices.gen + i - 1])

\* extrude_with: remove the face, insert one vertex per source vertex, insert
\* the extruded face and one quadrilateral per perimeter arc.  val is the
\* extruded face.
extrude_with(m, cache) ==
    Then(remove(m, cache.cache), LAMBDA s1 :
        LET sources == cache.sources
            found == SelectSeq(sources, LAMBDA a : Storage_contains(s1.m.vertices, a))
        IN  IF Len(sources) # Len(found) THEN Res(TopologyNotFound, s1.m, NoKey)
            ELSE Then(insert_vertices(s1.m, Len(found)), LAMBDA destinations :
                 Then(insert_face(destinations.m, destinations.val), LAMBDA extrusion :
                 Then(ForEach(extrusion.m,
                              Perimeter([i \in 1..Len(sources) |->
                                            <<sources[i], destinations.val[i]>>]),
                              LAMBDA mm, p :
                                  insert_face(mm, <<p[1][1], p[2][1], p[2][2], p[1][2]>>)),
                      LAMBDA r : Res(Ok, r.m, extrusion.val)))))

\* ------------------------------------------------------------------------
\* The transaction wrapper (graph/mutation/mod.rs)
\* ------------------------------------------------------------------------

\* Option<(&mut M, N)>::None after drain().
Drained == [taken |-> TRUE]

\* Mutation::mutate: the container's storages move into the mutation.
Mutation_mutate(container) == container

\* Mutation::commit: the storages move back into a container; never fails.
Mutation_commit(mutation) == Res(Ok, mutation, NoKey)

\* Replace::replace: mem::replace(container, replacement); the value taken
\* out becomes the mutation.  `container` is the value behind the &mut M.
Replace_replace(container, replacement) ==
    [container |-> replacement, mutation |-> Mutation_mutate(container)]

\* A drain_and_commit that drops the committed mutant.
Replace_drain_and_commit_dropping(self, inner) ==
    [container |-> self.container, mutation |-> Drained, err |-> inner.err]

\* Replace::drain_and_commit: on Ok the committed mutant is written into the
\* container; on Err (`?`) the container is left as it is.
Replace_drain_and_commit(self, inner) ==
    IF inner.err = Ok
    THEN [container |-> inner.m, mutation |-> Drained, err |-> Ok]
    ELSE [container |-> self.container, mutation |-> Drained, err |-> inner.err]

\* A drain_and_abort that writes the mutation back into the container.
Replace_drain_and_abort_writing(self) ==
    [container |-> self.mutation, mutation |-> Drained, err |-> Ok]

\* Replace::drain_and_abort: the mutation is dropped; nothing is written.
Replace_drain_and_abort(self) ==
    [container |-> self.container, mutation |-> Drained, err |-> Ok]

\* Mutate::mutate for Replace: replace(mutant, M::default()).
Replace_mutate(mutant) == Replace_replace(mutant, DefaultCore)

\* Mutate::commit for Replace: drain_and_commit, then mem::forget(self).
Replace_commit(self) == Replace_drain_and_commit(self, Mutation_commit(self.mutation))

\* Mutate::abort for Replace: drain_and_abort, then mem::forget(self).
Replace_abort(self) == Replace_drain_and_abort(self)

\* Drop for Replace: drain_and_abort.
Replace_drop(self) == Replace_drain_and_abort(self)

\* Mutate::commit_with for Replace: run the closure on the mutation, commit
\* on Ok, abort on Err.
commit_with(self, f(_)) ==
    Bind(f(self.mutation), LAMBDA output :
        IF output.err = Ok
        THEN Bind(Replace_drain_and_commit(self, Mutation_commit(output.m)), LAMBDA c :
                  [graph |-> c.container, err |-> c.err, val |-> output.val])
        ELSE Bind(Replace_drain_and_abort(self), LAMBDA a :
                  [graph |-> a.container, err |-> output.err, val |-> NoKey]))

\* Mutation::replace(storage, Default::default()).commit_with(closure) after
\* a snapshot that may fail before anything is replaced.
Transact(graph_, snapshot, commit(_, _)) ==
    IF snapshot.err # Ok THEN [graph |-> graph_, err |-> snapshot.err, val |-> NoKey]
    ELSE commit_with(Replace_replace(graph_, DefaultCore), LAMBDA m : commit(m, snapshot.val))

\* expect_consistent(): panics on an error.
expect_consistent(res) ==
    IF res.err \in {Ok, Hang} THEN res ELSE [res EXCEPT !.err = Panic]

\* ------------------------------------------------------------------------
\* Operations of the views (graph/face.rs) and of the graph
\* ------------------------------------------------------------------------

\* Result of an operation of a view: the container afterwards, the error and
\* the value returned.
Out(g, e, v) == [graph |-> g, err |-> e, val |-> v]

\* Selector::key_or_else with the closure key_at_index of FaceView::split.
key_at_index(g, abc, selector) ==
    LET vs == vertices(g, g.faces.map[abc].arc)
    IN  IF selector.by = "key" THEN Res(Ok, g, selector.at)
        ELSE IF selector.at >= Len(vs) THEN Res(TopologyNotFound, g, NoKey)
        ELSE Res(Ok, g, vs[selector.at + 1])

\* FaceView::split.  A stale face key binds no view (TopologyNotFound).
FaceView_split(g, abc, source, destination) ==
    IF ~HasFace(g, abc) THEN Out(g, TopologyNotFound, NoKey)
    ELSE IF Diverges(g, g.faces.map[abc].arc) THEN Out(g, Hang, NoKey)
    ELSE Bind(key_at_index(g, abc, source), LAMBDA s :
         Bind(key_at_index(g, abc, destination), LAMBDA d :
              IF s.err # Ok THEN Out(g, s.err, NoKey)
              ELSE IF d.err # Ok THEN Out(g, d.err, NoKey)
              ELSE Bind(FaceSplitCache_snapshot(g, abc, s.val, d.val), LAMBDA cache :
                        IF cache.err # Ok THEN Out(g, cache.err, NoKey)
                        ELSE expect_consistent(Transact(g, cache, split)))))

\* FaceView::remove.  val is the leading arc of the removed face.
FaceView_remove(g, abc) ==
    IF ~HasFace(g, abc) THEN Out(g, TopologyNotFound, NoKey)
    ELSE Bind(expect_consistent(Transact(g, expect_consistent(FaceRemoveCache_snapshot(g, abc)),
                                         remove)),
              LAMBDA r : IF r.err = Ok THEN [r EXCEPT !.val = r.val.arc] ELSE r)

\* FaceView::poke_with.  val is the inserted vertex.
FaceView_poke_with(g, abc) ==
    IF ~HasFace(g, abc) THEN Out(g, TopologyNotFound, NoKey)
    ELSE expect_consistent(Transact(g, expect_consistent(FacePokeCache_snapshot(g, abc)),
                                    poke_with))

\* FaceView::extrude.  val is the extruded face.
FaceView_extrude(g, abc) ==
    IF ~HasFace(g, abc) THEN Out(g, TopologyNotFound, NoKey)
    ELSE expect_consistent(Transact(g, expect_consistent(FaceExtrudeCache_snapshot(g, abc)),
                                    extrude_with))

\* FaceView::bridge.
FaceView_bridge(g, source, destination) ==
    IF ~HasFace(g, source) THEN Out(g, TopologyNotFound, NoKey)
    ELSE Bind(FaceBridgeCache_snapshot(g, source, destination), LAMBDA cache :
              IF cache.err # Ok THEN Out(g, cache.err, NoKey)
              ELSE expect_consistent(Transact(g, cache, bridge)))

\* FaceCirculator::next called until it returns None, as the Iterator for
\* FaceCirculator<&M> does: the face of the opposite of each interior arc,
\* skipping arcs whose opposite has no face.
neighboring_faces(g, start) ==
    LET keys == ArcCirculator_next(g, start).keys
        faced == SelectSeq(keys, LAMBDA ab : HasArc(g, Opposite(ab))
                                             /\ g.arcs[Opposite(ab)].face # NoKey)
    IN  TakeWhile([i \in 1..Len(faced) |-> g.arcs[Opposite(faced[i])].face],
                  LAMBDA f : HasFace(g, f))

\* VertexView::neighboring_faces: the faces of the incoming arcs the arc
\* circulator of the vertex yields, skipping arcs without a face.
VertexView_neighboring_faces(g, a) ==
    LET keys == reachable_incoming_arcs(g, a)
        faced == SelectSeq(keys, LAMBDA ba : HasArc(g, ba) /\ g.arcs[ba].face # NoKey)
    IN  [i \in 1..Len(faced) |-> g.arcs[faced[i]].face]

\* Ring::get_or_insert_face_with on the ring of the arc `start`.
Ring_get_or_insert_face_with(g, start) ==
    LET key == g.arcs[start].face
    IN  IF key # NoKey
        THEN IF HasFace(g, key) THEN Out(g, Ok, key) ELSE Out(g, Panic, NoKey)
        ELSE IF Diverges(g, start) THEN Out(g, Hang, NoKey)
        ELSE expect_consistent(
                 Transact(g, expect_consistent(FaceInsertCache_snapshot(g, vertices(g, start))),
                          insert_with))

\* ArcView::remove: val is the source vertex of the removed arc.
ArcView_remove(g, ab) ==
    IF ~HasArc(g, ab) THEN Out(g, TopologyNotFound, NoKey)
    ELSE Bind(expect_consistent(Transact(g, expect_consistent(EdgeRemoveCache_snapshot(g, ab)),
                                         remove_with_cache)),
              LAMBDA r : IF r.err = Ok THEN [r EXCEPT !.val = ab[1]] ELSE r)

\* FaceView::merge.  val is the merged face.
FaceView_merge(g, abc, destination) ==
    IF ~HasFace(g, abc) THEN Out(g, TopologyNotFound, NoKey)
    ELSE IF Diverges(g, g.faces.map[abc].arc) THEN Out(g, Hang, NoKey)
    ELSE Bind(neighboring_faces(g, g.faces.map[abc].arc), LAMBDA neighbors :
         Bind(interior_arcs(g, g.faces.map[abc].arc), LAMBDA arcs :
             LET key == IF destination.by = "key" THEN destination.at
                        ELSE IF destination.at >= Len(neighbors) THEN NoKey
                        ELSE neighbors[destination.at + 1]
                 shared == SelectSeq(arcs, LAMBDA ab : HasArc(g, Opposite(ab))
                                                       /\ g.arcs[Opposite(ab)].face = key)
                 searched == IF shared = <<>> THEN arcs
                             ELSE SubSeq(arcs, 1, IndexOf(arcs, shared[1]) + 1)
             IN  IF key = NoKey THEN Out(g, TopologyNotFound, NoKey)
                 ELSE IF \E i \in 1..Len(searched) : ~HasArc(g, Opposite(searched[i]))
                 THEN Out(g, Panic, NoKey)
                 ELSE IF shared = <<>> THEN Out(g, TopologyNotFound, NoKey)
                 ELSE Bind(ArcView_remove(g, shared[1]), LAMBDA removed :
                          LET a == removed.val
                              g1 == removed.graph
                          IN  IF removed.err # Ok THEN removed
                              ELSE IF ~Storage_contains(g1.vertices, a)
                              THEN Out(g1, Panic, NoKey)
                              ELSE IF g1.vertices.map[a].arc = NoArc
                                      \/ ~HasArc(g1, g1.vertices.map[a].arc)
                              THEN Out(g1, Panic, NoKey)
                              ELSE Ring_get_or_insert_face_with(g1, g1.vertices.map[a].arc))))

\* FaceView::triangulate: split between ring index 0 and 2 while the arity
\* is above 3, continuing with the face of the arc returned.  val is the
\* terminating face.
RECURSIVE FaceView_triangulate_loop(_, _, _)
FaceView_triangulate_loop(g, face, fuel) ==
    IF Diverges(g, g.faces.map[face].arc) THEN Out(g, Hang, NoKey)
    ELSE IF arity(g, g.faces.map[face].arc) <= 3 THEN Out(g, Ok, face)
    ELSE IF fuel = 0 THEN Out(g, Hang, NoKey)
    ELSE Bind(expect_consistent(FaceView_split(g, face, ByIndex(0), ByIndex(2))), LAMBDA r :
              IF r.err # Ok THEN r
              ELSE IF ~HasArc(r.graph, r.val) \/ r.graph.arcs[r.val].face = NoKey
                      \/ ~HasFace(r.graph, r.graph.arcs[r.val].face)
              THEN Out(r.graph, Panic, NoKey)
              ELSE FaceView_triangulate_loop(r.graph, r.graph.arcs[r.val].face, fuel - 1))

FaceView_triangulate(g, abc) ==
    IF ~HasFace(g, abc) THEN Out(g, TopologyNotFound, NoKey)
    ELSE FaceView_triangulate_loop(g, abc, Fuel(g))

\* MeshGraph::triangulate: the keys of the faces are collected, then each
\* face is triangulated.
RECURSIVE triangulate_faces(_, _)
triangulate_faces(g, keys) ==
    IF keys = {} THEN Out(g, Ok, NoKey)
    ELSE Bind(CHOOSE k \in keys : \A j \in keys : k <= j, LAMBDA k :
         Bind(FaceView_triangulate(g, k), LAMBDA r :
              IF r.err # Ok THEN r ELSE triangulate_faces(r.graph, keys \ {k})))

MeshGraph_triangulate(g) == triangulate_faces(g, DOMAIN g.faces.map)

\* ArcView::split: val is the inserted vertex.
ArcView_split(g, ab) ==
    IF ~HasArc(g, ab) THEN Out(g, TopologyNotFound, NoKey)
    ELSE expect_consistent(Transact(g, expect_consistent(EdgeSplitCache_snapshot(g, ab)),
                                    split_with_cache))

\* ArcView::bridge: val is the inserted face.
ArcView_bridge(g, source, destination) ==
    IF ~HasArc(g, source) THEN Out(g, TopologyNotFound, NoKey)
    ELSE Bind(ArcBridgeCache_snapshot(g, source, destination), LAMBDA cache :
              IF cache.err # Ok THEN Out(g, cache.err, NoKey)
              ELSE expect_consistent(Transact(g, cache, bridge_with_cache)))

\* ArcView::extrude: val is the arc between the inserted vertices.
ArcView_extrude(g, ab) ==
    IF ~HasArc(g, ab) THEN Out(g, TopologyNotFound, NoKey)
    ELSE Bind(ArcExtrudeCache_snapshot(g, ab), LAMBDA cache :
              IF cache.err # Ok THEN Out(g, cache.err, NoKey)
              ELSE expect_consistent(Transact(g, cache, extrude_with_cache)))

\* MeshGraph::insert_vertex: val is the key of the vertex.
MeshGraph_insert_vertex(g) ==
    Transact(g, Res(Ok, g, NoKey), LAMBDA m, c : insert_vertex(m))

\* MeshGraph::insert_face: val is the key of the face.
MeshGraph_insert_face(g, perimeter) ==
    Bind(FaceInsertCache_snapshot(g, perimeter), LAMBDA cache :
         IF cache.err # Ok THEN Out(g, cache.err, NoKey)
         ELSE expect_consistent(Transact(g, cache, insert_with)))

\* ------------------------------------------------------------------------
\* State
\* ------------------------------------------------------------------------

VARIABLES
    graph,      \* the mesh container: vertex, arc, edge and face storage
    last,       \* the last operation called: its name, error and value
    ops,        \* the number of operations called so far
    txn,        \* a container and the Replace that mutates it
    store       \* a Storage with generated keys and what its caller saw

vars == <<graph, last, ops, txn, store>>

\* The values of txn and store while the program uses neither.
NoTxn == [pc |-> "unused"]

NoStore == [pc |-> "unused"]

\* The program runs until an operation panics or does not return; the runs
\* examined call at most MaxOps operations.
Alive == last.err \notin {Panic, Hang} /\ ops < MaxOps

\* Vertex keys a caller names in a perimeter.
PerimeterKeys == {0, 1, 2}

\* Perimeters a caller may pass to face insert.
Perimeters ==
    UNION {[1..n -> PerimeterKeys] : n \in MinPerimeter..MaxPerimeter}

Done(op, res) ==
    /\ graph' = res.graph
    /\ last' = [op |-> op, err |-> res.err, val |-> res.val]
    /\ ops' = ops + 1
    /\ UNCHANGED <<txn, store>>

Init ==
    /\ graph = DefaultCore
    /\ last = [op |-> "new", err |-> Ok, val |-> NoKey]
    /\ ops = 0
    /\ txn = NoTxn
    /\ store = NoStore

\* Keys a caller may pass: every key ever generated and one never generated.
FaceKeys == 0..graph.faces.gen

VertexKeys == 0..graph.vertices.gen

\* Arc keys a caller may pass: every arc of the graph and one absent arc.
ArcKeys == DOMAIN graph.arcs \cup {<<graph.vertices.gen, graph.vertices.gen>>}

\* Selectors a caller may pass to split: both vertices by key or both by
\* index, some of them out of range.
Selectors == {ByKey(k) : k \in VertexKeys} \cup {ByIndex(i) : i \in 0..(MaxPerimeter + 1)}

FaceSelectors == {ByKey(k) : k \in FaceKeys} \cup {ByIndex(i) : i \in 0..MaxPerimeter}

InsertVertex ==
    /\ Alive
    /\ graph.vertices.gen < MaxInsertedVertices
    /\ Done("insert_vertex", MeshGraph_insert_vertex(graph))

InsertFace ==
    /\ Alive
    /\ \E perimeter \in Perimeters :
           Done("insert_face", MeshGraph_insert_face(graph, perimeter))

RemoveFace ==
    /\ Alive
    /\ \E abc \in FaceKeys : Done("remove_face", FaceView_remove(graph, abc))

SplitFace ==
    /\ Alive
    /\ \E abc \in FaceKeys, source \in Selectors :
           \E destination \in {d \in Selectors : d.by = source.by} :
               Done("split_face", FaceView_split(graph, abc, source, destination))

MergeFace ==
    /\ Alive
    /\ \E abc \in FaceKeys, destination \in FaceSelectors :
           Done("merge_face", FaceView_merge(graph, abc, destination))

PokeFace ==
    /\ Alive
    /\ \E abc \in FaceKeys : Done("poke_face", FaceView_poke_with(graph, abc))

ExtrudeFace ==
    /\ Alive
    /\ \E abc \in FaceKeys : Done("extrude_face", FaceView_extrude(graph, abc))

BridgeFace ==
    /\ Alive
    /\ \E source \in FaceKeys, destination \in FaceKeys :
           Done("bridge_face", FaceView_bridge(graph, source, destination))

TriangulateFace ==
    /\ Alive
    /\ \E abc \in FaceKeys : Done("triangulate_face", FaceView_triangulate(graph, abc))

SplitEdge ==
    /\ Alive
    /\ \E ab \in ArcKeys : Done("split_edge", ArcView_split(graph, ab))

RemoveEdge ==
    /\ Alive
    /\ \E ab \in ArcKeys : Done("remove_edge", ArcView_remove(graph, ab))

BridgeArc ==
    /\ Alive
    /\ \E source \in ArcKeys, destination \in ArcKeys :
           Done("bridge_arc", ArcView_bridge(graph, source, destination))

ExtrudeArc ==
    /\ Alive
    /\ \E ab \in ArcKeys : Done("extrude_arc", ArcView_extrude(graph, ab))

Next ==
    \/ InsertVertex
    \/ InsertFace
    \/ RemoveFace
    \/ SplitFace
    \/ MergeFace
    \/ PokeFace
    \/ ExtrudeFace
    \/ BridgeFace
    \/ TriangulateFace
    \/ SplitEdge
    \/ RemoveEdge
    \/ BridgeArc
    \/ ExtrudeArc

Spec == Init /\ [][Next]_vars

\* ------------------------------------------------------------------------
\* The life of one Replace over a container (graph/mutation/mod.rs)
\* ------------------------------------------------------------------------

\* Edits a caller makes through the mutation: a closure given to
\* commit_with, or a call through as_mut / deref_mut.
Edits ==
    {[kind |-> "insert_vertex", perimeter |-> <<>>, abc |-> NoKey]}
    \cup {[kind |-> "insert_face", perimeter |-> p, abc |-> NoKey] : p \in Perimeters}
    \cup {[kind |-> "remove_face", perimeter |-> <<>>, abc |-> k] : k \in 0..1}

\* The edits made to m: no more than MaxInsertedVertices vertices are inserted.
EditsOf(m) ==
    {edit \in Edits : edit.kind = "insert_vertex" => m.vertices.gen < MaxInsertedVertices}

ApplyEdit(m, edit) ==
    IF edit.kind = "insert_vertex" THEN insert_vertex(m)
    ELSE IF edit.kind = "insert_face" THEN insert_face(m, edit.perimeter)
    ELSE Then(FaceRemoveCache_snapshot(m, edit.abc), LAMBDA r : remove(m, r.val))

\* What the caller got from the call that ended the Replace.
NoOut == [how |-> "none", err |-> Ok, val |-> NoKey, closure |-> Res(Ok, DefaultCore, NoKey)]

InitReplace ==
    /\ graph = DefaultCore
    /\ last = [op |-> "new", err |-> Ok, val |-> NoKey]
    /\ ops = 0
    /\ store = NoStore
    /\ txn = [pc |-> "idle", container |-> DefaultCore, mutation |-> Drained,
              before |-> DefaultCore, out |-> NoOut]

Advance(next) ==
    /\ ops < MaxOps
    /\ txn' = next
    /\ ops' = ops + 1
    /\ UNCHANGED <<graph, last, store>>

\* Mutate::mutate(&mut container).
ReplaceBegin ==
    /\ txn.pc = "idle"
    /\ LET self == Replace_mutate(txn.container)
       IN  Advance([pc |-> "open", container |-> self.container, mutation |-> self.mutation,
                 before |-> txn.container, out |-> NoOut])

\* A call on the mutation through as_mut; what it did stays in the mutation
\* whether or not it failed.
ReplaceEdit ==
    /\ txn.pc = "open"
    /\ \E edit \in EditsOf(txn.mutation) :
           Advance([txn EXCEPT !.mutation = ApplyEdit(txn.mutation, edit).m])

Close(how, closure, res) ==
    Advance([pc |-> "idle", container |-> res.graph, mutation |-> Drained, before |-> txn.before,
          out |-> [how |-> how, err |-> res.err, val |-> res.val, closure |-> closure]])

ReplaceCommitWith ==
    /\ txn.pc = "open"
    /\ \E edit \in EditsOf(txn.mutation) :
           Close("commit_with", ApplyEdit(txn.mutation, edit),
                 commit_with([container |-> txn.container, mutation |-> txn.mutation],
                             LAMBDA m : ApplyEdit(m, edit)))

ReplaceCommit ==
    /\ txn.pc = "open"
    /\ LET c == Replace_commit([container |-> txn.container, mutation |-> txn.mutation])
       IN  Close("commit", Res(Ok, txn.mutation, NoKey), Out(c.container, c.err, NoKey))

ReplaceAbort ==
    /\ txn.pc = "open"
    /\ LET a == Replace_abort([container |-> txn.container, mutation |-> txn.mutation])
       IN  Close("abort", Res(Ok, txn.mutation, NoKey), Out(a.container, a.err, NoKey))

ReplaceDrop ==
    /\ txn.pc = "open"
    /\ LET a == Replace_drop([container |-> txn.container, mutation |-> txn.mutation])
       IN  Close("drop", Res(Ok, txn.mutation, NoKey), Out(a.container, a.err, NoKey))

NextReplace ==
    \/ ReplaceBegin
    \/ ReplaceEdit
    \/ ReplaceCommitWith
    \/ ReplaceCommit
    \/ ReplaceAbort
    \/ ReplaceDrop

SpecReplace == InitReplace /\ [][NextReplace]_vars

\* ------------------------------------------------------------------------
\* A Storage with generated keys and its caller (graph/storage.rs)
\* ------------------------------------------------------------------------

\* Keys the generator may reach here; callers build keys of this range and
\* one beyond it.
MaxKeys == 2

Keys == 0..MaxKeys

Items == {"x", "y"}

\* What the last call was and what the caller could observe around it.
Seen(op, key, item, before, after) ==
    [op |-> op, key |-> key, item |-> item,
     present |-> Storage_contains(before, key),
     len_before |-> Storage_len(before),
     found |-> Storage_get(after, key)]

InitStorage ==
    /\ graph = DefaultCore
    /\ last = [op |-> "new", err |-> Ok, val |-> NoKey]
    /\ ops = 0
    /\ txn = NoTxn
    /\ store = [s |-> Storage_new, returned |-> {}, repeated |-> FALSE,
                seen |-> Seen("new", NoKey, NoItem, Storage_new, Storage_new)]

StorageInsert ==
    /\ store.s.gen < MaxKeys
    /\ \E item \in Items :
           LET r == Storage_insert(store.s, item)
           IN  store' = [s |-> r.s, returned |-> store.returned \cup {r.key},
                         repeated |-> r.key \in store.returned,
                         seen |-> Seen("insert", r.key, item, store.s, r.s)]
    /\ UNCHANGED <<graph, last, ops, txn>>

StorageInsertWithKey ==
    /\ \E key \in Keys, item \in Items :
           LET s == Storage_insert_with_key(store.s, key, item)
           IN  store' = [store EXCEPT !.s = s, !.repeated = FALSE,
                                      !.seen = Seen("insert_with_key", key, item, store.s, s)]
    /\ UNCHANGED <<graph, last, ops, txn>>

StorageGet ==
    /\ \E key \in Keys :
           store' = [store EXCEPT !.repeated = FALSE,
                                  !.seen = Seen("get", key, NoItem, store.s, store.s)]
    /\ UNCHANGED <<graph, last, ops, txn>>

StorageGetMut ==
    /\ \E key \in Keys, item \in Items :
           LET s == Storage_get_mut(store.s, key, item)
           IN  store' = [store EXCEPT !.s = s, !.repeated = FALSE,
                                      !.seen = Seen("get_mut", key, item, store.s, s)]
    /\ UNCHANGED <<graph, last, ops, txn>>

NextStorage ==
    \/ StorageInsert
    \/ StorageInsertWithKey
    \/ StorageGet
    \/ StorageGetMut

SpecStorage == InitStorage /\ [][NextStorage]_vars


\* ------------------------------------------------------------------------
\* Distances around the rings of a mesh of one face (graph/face.rs)
\* ------------------------------------------------------------------------

\* The longest perimeter of the single face.
MaxArity == 4

\* MeshGraph::from_raw_buffers_with_arity for one polygon of n vertices:
\* n vertices are inserted, then the face over them in order.
RECURSIVE WithVertices(_, _)
WithVertices(g, n) ==
    IF n = 0 THEN g ELSE WithVertices(MeshGraph_insert_vertex(g).graph, n - 1)

from_raw_buffers_with_arity(n) ==
    MeshGraph_insert_face(WithVertices(DefaultCore, n), [i \in 1..n |-> i - 1]).graph

\* Selectors a caller may pass to distance, some naming no vertex of the ring.
RingSelectors ==
    {ByKey(k) : k \in 0..graph.vertices.gen} \cup {ByIndex(i) : i \in 0..MaxArity}

InitDistance ==
    /\ graph \in {from_raw_buffers_with_arity(n) : n \in 3..MaxArity}
    /\ last = [op |-> "new", err |-> Ok, val |-> NoKey]
    /\ ops = 0
    /\ txn = NoTxn
    /\ store = NoStore

\* into_ring() of the face and of the arc opposite to its leading arc.
RingStarts ==
    UNION {{graph.faces.map[f].arc, Opposite(graph.faces.map[f].arc)} : f \in DOMAIN graph.faces.map}

\* ring.distance(source, destination) on the ring of the face or on the
\* ring around it.
RingDistance ==
    /\ \E start \in RingStarts, source \in RingSelectors, destination \in RingSelectors :
           LET r == distance(graph, start, source, destination)
           IN  last' = [op |-> "distance", err |-> r.err, val |-> r.val,
                        start |-> start, source |-> source, destination |-> destination]
    /\ UNCHANGED <<graph, ops, txn, store>>

NextDistance == RingDistance

SpecDistance == InitDistance /\ [][NextDistance]_vars

\* ------------------------------------------------------------------------
\* Face operations on the meshes of the tests of graph/face.rs
\* ------------------------------------------------------------------------

MaxFaceArity == 5

MaxFaceOps == 2

\* MeshGraph::from_raw_buffers: the faces are inserted in order over n
\* vertices inserted first.
RECURSIVE WithFaces(_, _)
WithFaces(g, perimeters) ==
    IF perimeters = <<>> THEN g
    ELSE WithFaces(MeshGraph_insert_face(g, Head(perimeters)).graph, Tail(perimeters))

from_raw_buffers(n, perimeters) == WithFaces(WithVertices(DefaultCore, n), perimeters)

\* Two polygons of arity n sharing the edge between vertex 0 and vertex
\* n - 1, as the two quadrilaterals of tests::merge_faces.
two_polygons(n) ==
    from_raw_buffers(2 * n - 2,
                     <<[i \in 1..n |-> i - 1],
                       [i \in 1..n |-> IF i = 1 THEN 0 ELSE n + i - 3]>>)

\* The closed mesh of six triangles over five vertices of tests::remove_face
\* and tests::extrude_face.
bipyramid ==
    from_raw_buffers(5, << <<0, 1, 3>>, <<1, 2, 3>>, <<2, 0, 3>>,
                           <<1, 0, 4>>, <<2, 1, 4>>, <<0, 2, 4>> >>)

\* The cube of tests::poke_face and tests::triangulate_mesh.
cube ==
    from_raw_buffers(8, << <<0, 3, 2, 1>>, <<4, 5, 6, 7>>, <<0, 1, 5, 4>>,
                           <<1, 2, 6, 5>>, <<2, 3, 7, 6>>, <<3, 0, 4, 7>> >>)

\* Two triangles sharing an edge after face.extrude(..) of the second one:
\* an open mesh whose boundary runs through vertices of three faces.
extruded_pair == FaceView_extrude(two_polygons(3), 1).graph

\* Two triangles sharing an edge after face.poke_with(..) of the first one.
poked_pair == FaceView_poke_with(two_polygons(3), 0).graph

Fixtures ==
    {from_raw_buffers_with_arity(n) : n \in 3..MaxFaceArity}
        \cup {two_polygons(n) : n \in 3..(MaxFaceArity - 1)}
        \cup {bipyramid, cube, extruded_pair, poked_pair}

InitFace ==
    /\ graph \in Fixtures
    /\ last = [op |-> "new", err |-> Ok, val |-> NoKey]
    /\ ops = 0
    /\ txn = NoTxn
    /\ store = NoStore

\* The calls explored end at the first call that fails.
FaceAlive == last.err = Ok /\ ops < MaxFaceOps

\* The call made and its outcome.
Called(op, res, face, source, destination) ==
    /\ graph' = res.graph
    /\ last' = [op |-> op, err |-> res.err, val |-> res.val,
                face |-> face, source |-> source, destination |-> destination]
    /\ ops' = ops + 1
    /\ UNCHANGED <<txn, store>>

\* The vertices on the ring of a face.
OnRing(face) ==
    IF HasFace(graph, face) /\ ~Diverges(graph, graph.faces.map[face].arc)
    THEN Range(vertices(graph, graph.faces.map[face].arc))
    ELSE {}

\* Pairs of keys and pairs of positions a caller may select on the ring of a
\* face, some naming no vertex of it.
FaceRingSelectors(face) ==
    LET keys == {ByKey(k) : k \in OnRing(face) \cup {graph.vertices.gen}}
        indices == {ByIndex(i) : i \in 0..Cardinality(OnRing(face))}
    IN  (keys \X keys) \cup (indices \X indices)

\* Faces a caller may name to merge into, by key or by position among the
\* neighbours.
NeighborSelectors ==
    {ByKey(k) : k \in FaceKeys} \cup {ByIndex(i) : i \in 0..MaxFaceArity}

FaceSplit ==
    /\ FaceAlive
    /\ \E abc \in FaceKeys :
       \E selectors \in FaceRingSelectors(abc) :
           Called("split", FaceView_split(graph, abc, selectors[1], selectors[2]),
                  abc, selectors[1], selectors[2])

FaceMerge ==
    /\ FaceAlive
    /\ \E abc \in FaceKeys, destination \in NeighborSelectors :
           Called("merge", FaceView_merge(graph, abc, destination), abc, NoKey, destination)

FaceTriangulate ==
    /\ FaceAlive
    /\ \E abc \in FaceKeys :
           Called("triangulate", FaceView_triangulate(graph, abc), abc, NoKey, NoKey)

FaceRemove ==
    /\ FaceAlive
    /\ \E abc \in FaceKeys :
           Called("remove", FaceView_remove(graph, abc), abc, NoKey, NoKey)

FacePoke ==
    /\ FaceAlive
    /\ \E abc \in FaceKeys :
           Called("poke", FaceView_poke_with(graph, abc), abc, NoKey, NoKey)

FaceExtrude ==
    /\ FaceAlive
    /\ \E abc \in FaceKeys :
           Called("extrude", FaceView_extrude(graph, abc), abc, NoKey, NoKey)

\* ArcView::split of an arc of the mesh.
FaceEdgeSplit ==
    /\ FaceAlive
    /\ \E ab \in DOMAIN graph.arcs :
           Called("split_edge", ArcView_split(graph, ab), NoKey, ab[1], ab[2])

NextFace ==
    \/ FaceSplit
    \/ FaceMerge
    \/ FaceTriangulate
    \/ FaceRemove
    \/ FacePoke
    \/ FaceExtrude
    \/ FaceEdgeSplit

SpecFace == InitFace /\ [][NextFace]_vars

\* ------------------------------------------------------------------------
\* Bridges and arc extrusions on meshes of one or two faces
\* ------------------------------------------------------------------------

MaxBridgeArity == 4

MaxBridgeOps == 2

\* MeshGraph::from_raw_buffers for a polygon of arity n and a polygon of
\* arity k that share no vertex.
disjoint_polygons(n, k) ==
    from_raw_buffers(n + k, <<[i \in 1..n |-> i - 1], [i \in 1..k |-> n + i - 1]>>)

\* The four triangles of a tetrahedron over the vertices o .. o + 3.
tetrahedron(o) ==
    << <<o, o + 1, o + 2>>, <<o, o + 3, o + 1>>, <<o + 1, o + 3, o + 2>>, <<o + 2, o + 3, o>> >>

\* Two closed meshes that share no vertex.
two_tetrahedra == from_raw_buffers(8, tetrahedron(0) \o tetrahedron(4))

\* Two separate triangles after the first face was removed and a quadrilateral
\* was bridged between an arc of the second and an arc left by the first.
bridged_triangles ==
    ArcView_bridge(FaceView_remove(disjoint_polygons(3, 3), 0).graph, <<3, 5>>, <<0, 2>>).graph

BridgeFixtures ==
    {disjoint_polygons(n, k) : n \in 3..MaxBridgeArity, k \in 3..MaxBridgeArity}
        \cup {from_raw_buffers_with_arity(3), two_polygons(3), two_tetrahedra, bridged_triangles}

InitBridge ==
    /\ graph \in BridgeFixtures
    /\ last = [op |-> "new", err |-> Ok, val |-> NoKey]
    /\ ops = 0
    /\ txn = NoTxn
    /\ store = NoStore

\* The calls explored end at the first call that fails.
BridgeAlive == last.err = Ok /\ ops < MaxBridgeOps

\* face.bridge(destination), also with the key of no face.
FaceBridgeCall ==
    /\ BridgeAlive
    /\ \E source \in FaceKeys, destination \in FaceKeys :
           Called("bridge_face", FaceView_bridge(graph, source, destination),
                  source, NoKey, destination)

\* arc.bridge(destination), also with the key of no arc.
ArcBridgeCall ==
    /\ BridgeAlive
    /\ \E source \in ArcKeys, destination \in ArcKeys :
           Called("bridge_arc", ArcView_bridge(graph, source, destination),
                  NoKey, source, destination)

\* arc.extrude(..).
ArcExtrudeCall ==
    /\ BridgeAlive
    /\ \E ab \in ArcKeys :
           Called("extrude_arc", ArcView_extrude(graph, ab), NoKey, ab, NoArc)

\* face.remove(), which leaves a ring of boundary arcs.
FaceRemoveCall ==
    /\ BridgeAlive
    /\ \E abc \in FaceKeys :
           Called("remove_face", FaceView_remove(graph, abc), abc, NoKey, NoKey)

NextBridge ==
    \/ FaceBridgeCall
    \/ ArcBridgeCall
    \/ ArcExtrudeCall
    \/ FaceRemoveCall

SpecBridge == InitBridge /\ [][NextBridge]_vars

\* ------------------------------------------------------------------------
\* Face inserts with any perimeter
\* ------------------------------------------------------------------------

\* The longest perimeter passed to face insert.
MaxInsertArity == 4

\* The number of calls explored from each mesh.
MaxInsertOps == 2

\* Vertices without a face, one triangle, two triangles sharing an edge or
\* none, and the triangles that an arc bridge joined.
InsertFixtures ==
    {from_raw_buffers(3, <<>>), from_raw_buffers_with_arity(3), two_polygons(3),
     disjoint_polygons(3, 3), bridged_triangles}

InitInsert ==
    /\ graph \in InsertFixtures
    /\ last = [op |-> "new", err |-> Ok, val |-> NoKey]
    /\ ops = 0
    /\ txn = NoTxn
    /\ store = NoStore

InsertAlive == last.err = Ok /\ ops < MaxInsertOps

\* Perimeters a caller may pass: any sequence of at most MaxInsertArity
\* vertex keys, the empty one and keys of no vertex included.
InsertPerimeters == UNION {[1..n -> VertexKeys] : n \in 0..MaxInsertArity}

\* graph.insert_face(perimeter, ..); last.source is the perimeter.
FaceInsertCall ==
    /\ InsertAlive
    /\ \E perimeter \in InsertPerimeters :
           Called("insert_face", MeshGraph_insert_face(graph, perimeter),
                  NoKey, perimeter, NoArc)

\* face.remove() between the inserts.
FaceRemovedCall ==
    /\ InsertAlive
    /\ \E abc \in FaceKeys :
           Called("remove_face", FaceView_remove(graph, abc), abc, <<>>, NoArc)

NextInsert ==
    \/ FaceInsertCall
    \/ FaceRemovedCall

SpecInsert == InitInsert /\ [][NextInsert]_vars

\* ------------------------------------------------------------------------
\* The arc circulator, one call of next() at a time (graph/face.rs)
\* ------------------------------------------------------------------------

\* The number of calls of next() on one circulator.
MaxCirculatorCalls == 8

\* TraceFirst::insert: records the first key it is given and refuses that
\* key from then on.
TraceFirst_insert(trace, key) ==
    IF trace = NoArc THEN [trace |-> key, inserted |-> TRUE]
    ELSE [trace |-> trace, inserted |-> trace # key]

\* From<Ring> and From<FaceView> for ArcCirculator: the current arc is the
\* arc given and the trace is empty.  emitted, returned and calls record what
\* the caller has seen.
ArcCirculator_from(key) ==
    [pc |-> "circulating", start |-> key, arc |-> key, trace |-> NoArc,
     emitted |-> <<>>, returned |-> NoArc, calls |-> 0]

\* A circulator that consults no trace.
ArcCirculator_step_untraced(m, c) ==
    IF c.arc = NoArc THEN [c EXCEPT !.returned = NoArc, !.calls = @ + 1]
    ELSE [c EXCEPT !.arc = IF HasArc(m, c.arc) THEN m.arcs[c.arc].next ELSE NoArc,
                   !.emitted = Append(@, c.arc),
                   !.returned = c.arc,
                   !.calls = @ + 1]

\* ArcCirculator::next: None when there is no current arc or the trace
\* refuses it; otherwise the current arc, and the current arc becomes its
\* next link (None when the arc is not in storage).
ArcCirculator_step(m, c) ==
    IF c.arc = NoArc THEN [c EXCEPT !.returned = NoArc, !.calls = @ + 1]
    ELSE LET t == TraceFirst_insert(c.trace, c.arc)
         IN  IF ~t.inserted THEN [c EXCEPT !.returned = NoArc, !.calls = @ + 1]
             ELSE [c EXCEPT !.arc = IF HasArc(m, c.arc) THEN m.arcs[c.arc].next ELSE NoArc,
                            !.trace = t.trace,
                            !.emitted = Append(@, c.arc),
                            !.returned = c.arc,
                            !.calls = @ + 1]

\* The storage inside a mutation that has inserted the edge between the
\* first two vertices that no arc joins yet: its two arcs have no next arc.
with_unconnected_edge(g) ==
    LET free == {ab \in (DOMAIN g.vertices.map) \X (DOMAIN g.vertices.map) :
                     ab[1] < ab[2] /\ ~HasArc(g, ab) /\ ~HasArc(g, Opposite(ab))}
    IN  IF free = {} THEN g
        ELSE LET ab == CHOOSE x \in free : \A y \in free :
                           x[1] < y[1] \/ (x[1] = y[1] /\ x[2] <= y[2])
             IN  get_or_insert_edge_with(g, ab[1], ab[2]).m

\* The meshes circulated: committed meshes, the meshes one face removal
\* after them, and the storage inside a mutation that has disconnected an
\* arc from its next arc, has connected an arc to any next arc or has
\* inserted an edge.
CirculatorFixtures ==
    LET committed == Fixtures \cup InsertFixtures
        removed == UNION {{FaceView_remove(g, abc).graph : abc \in DOMAIN g.faces.map} :
                             g \in InsertFixtures}
        disconnected == UNION {{disconnect_next_arc(g, ab).m : ab \in DOMAIN g.arcs} :
                                  g \in {from_raw_buffers_with_arity(3), two_polygons(3)}}
        connected == UNION {{connect_neighboring_arcs(g, ab, bc).m :
                                 ab \in DOMAIN g.arcs, bc \in DOMAIN g.arcs} :
                               g \in {from_raw_buffers_with_arity(3)}}
    IN  committed \cup removed \cup disconnected \cup connected
            \cup {with_unconnected_edge(g) : g \in InsertFixtures}

InitCirculator ==
    /\ graph \in CirculatorFixtures
    /\ last = [op |-> "new", err |-> Ok, val |-> NoKey]
    /\ ops = 0
    /\ txn = NoTxn
    /\ store = NoStore

\* ring.interior_arcs() or face.interior_arcs(): a circulator from any arc.
CirculatorFrom ==
    /\ store = NoStore
    /\ \E key \in DOMAIN graph.arcs : store' = ArcCirculator_from(key)
    /\ UNCHANGED <<graph, last, ops, txn>>

\* One call of next() on the circulator.
CirculatorNext ==
    /\ store # NoStore
    /\ store.calls < MaxCirculatorCalls
    /\ store' = ArcCirculator_step(graph, store)
    /\ UNCHANGED <<graph, last, ops, txn>>

NextCirculator ==
    \/ CirculatorFrom
    \/ CirculatorNext

SpecCirculator == InitCirculator /\ [][NextCirculator]_vars

\* ------------------------------------------------------------------------
\* Paths (graph/path.rs)
\* ------------------------------------------------------------------------

\* A path is its deque of arc keys: keys[1] is the front of the deque, the
\* last arc of the path, and keys[Len(keys)] is the back of the deque, the
\* first arc of the path.

\* Result of an operation of a path: the error, the value returned and the
\* deque afterwards.
PathRes(e, v, keys) == [err |-> e, val |-> v, keys |-> keys]

\* Path::endpoints: the source of the back of the deque and the destination
\* of its front.
Path_endpoints(keys) == <<keys[Len(keys)][1], keys[1][2]>>

\* Path::is_closed.
Path_is_closed(keys) == Path_endpoints(keys)[1] = Path_endpoints(keys)[2]

\* Path::arcs: the deque in reverse, from the back of the path to its front.
Path_arcs(keys) == Reverse(keys)

\* Path::vertices: the back vertex, then the destination of each arc.
Path_vertices(keys) ==
    <<Path_endpoints(keys)[1]>> \o [i \in 1..Len(keys) |-> Path_arcs(keys)[i][2]]

\* VertexView::incoming_arcs and outgoing_arcs: the arcs the circulator
\* around the vertex reaches.
VertexView_incoming_arcs(m, a) == reachable_incoming_arcs(m, a)

VertexView_outgoing_arcs(m, a) == reachable_outgoing_arcs(m, a)

\* VertexView::neighboring_vertices: the source of each incoming arc.
VertexView_neighboring_vertices(m, a) ==
    [i \in 1..Len(VertexView_incoming_arcs(m, a)) |-> VertexView_incoming_arcs(m, a)[i][1]]

\* Path::front, Path::back and Path::arcs bind views with expect_consistent.
PathIsBound(m, keys) ==
    /\ \A i \in 1..Len(keys) : HasArc(m, keys[i])
    /\ Storage_contains(m.vertices, Path_endpoints(keys)[1])
    /\ Storage_contains(m.vertices, Path_endpoints(keys)[2])

\* Path::push_back: the arc XA from the vertex selected to the back vertex
\* A is pushed onto the back of the deque, unless the path is closed, X is
\* not found around A, or X is the source of an arc of the path.
Path_push_back(m, keys, destination) ==
    IF Path_is_closed(keys) THEN PathRes(TopologyMalformed, NoArc, keys)
    ELSE IF ~PathIsBound(m, keys) THEN PathRes(Panic, NoArc, keys)
    ELSE LET back == Path_endpoints(keys)[1]
             walk == VertexArcCirculator_next(m, back)
             incoming == VertexView_incoming_arcs(m, back)
             found == SelectFirst(incoming, LAMBDA arc : arc[1] = destination.at)
             neighbors == VertexView_neighboring_vertices(m, back)
         IN  IF destination.by = "key" /\ found = NoArc
             THEN PathRes(IF walk.diverges THEN Hang ELSE TopologyMalformed, NoArc, keys)
             ELSE IF destination.by = "index" /\ destination.at >= Len(neighbors)
             THEN PathRes(IF walk.diverges THEN Hang ELSE TopologyNotFound, NoArc, keys)
             ELSE LET xa == IF destination.by = "key" THEN found
                            ELSE <<neighbors[destination.at + 1], back>>
                      is_intersecting ==
                          \E i \in 1..Len(keys) : Path_arcs(keys)[i][1] = xa[1]
                  IN  IF is_intersecting THEN PathRes(TopologyMalformed, NoArc, keys)
                      ELSE PathRes(Ok, xa, Append(keys, xa))

\* Path::pop_back: the back of the deque, unless it is the only arc.
Path_pop_back(keys) ==
    IF Len(keys) > 1 THEN PathRes(Ok, keys[Len(keys)], SubSeq(keys, 1, Len(keys) - 1))
    ELSE PathRes(Ok, NoArc, keys)

\* Path::push_front: the arc BX from the front vertex B to the vertex
\* selected is pushed onto the front of the deque, unless the path is
\* closed, X is not found around B, or X is the destination of an arc of
\* the path.
Path_push_front(m, keys, destination) ==
    IF Path_is_closed(keys) THEN PathRes(TopologyMalformed, NoArc, keys)
    ELSE IF ~PathIsBound(m, keys) THEN PathRes(Panic, NoArc, keys)
    ELSE LET front == Path_endpoints(keys)[2]
             walk == VertexArcCirculator_next(m, front)
             outgoing == VertexView_outgoing_arcs(m, front)
             found == SelectFirst(outgoing, LAMBDA arc : arc[2] = destination.at)
             neighbors == VertexView_neighboring_vertices(m, front)
         IN  IF destination.by = "key" /\ found = NoArc
             THEN PathRes(IF walk.diverges THEN Hang ELSE TopologyMalformed, NoArc, keys)
             ELSE IF destination.by = "index" /\ destination.at >= Len(neighbors)
             THEN PathRes(IF walk.diverges THEN Hang ELSE TopologyNotFound, NoArc, keys)
             ELSE LET bx == IF destination.by = "key" THEN found
                            ELSE <<front, neighbors[destination.at + 1]>>
                      is_intersecting ==
                          \E i \in 1..Len(keys) : Path_arcs(keys)[i][2] = bx[2]
                  IN  IF is_intersecting THEN PathRes(TopologyMalformed, NoArc, keys)
                      ELSE PathRes(Ok, bx, <<bx>> \o keys)

\* A pop that also takes the last arc.
Path_pop_front_to_empty(keys) ==
    IF Len(keys) > 0 THEN PathRes(Ok, keys[1], Tail(keys))
    ELSE PathRes(Ok, NoArc, keys)

\* Path::pop_front: the front of the deque, unless it is the only arc.
Path_pop_front(keys) ==
    IF Len(keys) > 1 THEN PathRes(Ok, keys[1], Tail(keys))
    ELSE PathRes(Ok, NoArc, keys)

\* The loop of Path::bind: push_front of each further key, stopping at the
\* first error.
RECURSIVE Path_bind_rest(_, _, _)
Path_bind_rest(m, keys, rest) ==
    IF rest = <<>> THEN PathRes(Ok, NoArc, keys)
    ELSE LET pushed == Path_push_front(m, keys, ByKey(Head(rest)))
         IN  IF pushed.err # Ok THEN PathRes(pushed.err, NoArc, <<>>)
             ELSE Path_bind_rest(m, pushed.keys, Tail(rest))

\* Path::bind: the arc between the first two keys, then push_front of each
\* further key.  keys is empty when no path is bound.
Path_bind(m, vertex_keys) ==
    IF Len(vertex_keys) < 2 THEN PathRes(TopologyMalformed, NoArc, <<>>)
    ELSE LET ab == <<vertex_keys[1], vertex_keys[2]>>
         IN  IF ~HasArc(m, ab) THEN PathRes(TopologyNotFound, NoArc, <<>>)
             ELSE Path_bind_rest(m, <<ab>>, SubSeq(vertex_keys, 3, Len(vertex_keys)))

\* The number of calls on paths explored from each mesh.
MaxPathOps == 5

\* The longest sequence of vertex keys passed to bind.
MaxPathKeys == 3

\* A triangle, a quadrilateral, two triangles sharing an edge and the
\* triangles that an arc bridge joined.
PathFixtures ==
    {from_raw_buffers_with_arity(3), from_raw_buffers_with_arity(4), two_polygons(3),
     bridged_triangles}

InitPath ==
    /\ graph \in PathFixtures
    /\ last = [op |-> "new", err |-> Ok, val |-> NoKey]
    /\ ops = 0
    /\ txn = NoTxn
    /\ store = NoStore

\* The path is held in store; last.arg is the argument of the call.
PathCalled(op, res, arg) ==
    /\ last' = [op |-> op, err |-> res.err, val |-> res.val, arg |-> arg]
    /\ store' = IF res.keys = <<>> THEN NoStore ELSE [pc |-> "path", keys |-> res.keys]
    /\ ops' = ops + 1
    /\ UNCHANGED <<graph, txn>>

PathAlive == last.err \notin {Panic, Hang} /\ ops < MaxPathOps

\* Selectors a caller may pass to a push, some of them naming no vertex.
PathSelectors == {ByKey(k) : k \in VertexKeys} \cup {ByIndex(i) : i \in 0..3}

\* graph.path(keys), with any sequence of at most MaxPathKeys vertex keys.
PathBind ==
    /\ PathAlive
    /\ store = NoStore
    /\ \E vertex_keys \in UNION {[1..n -> VertexKeys] : n \in 0..MaxPathKeys} :
           PathCalled("bind", Path_bind(graph, vertex_keys), vertex_keys)

PathPushBack ==
    /\ PathAlive
    /\ store # NoStore
    /\ \E destination \in PathSelectors :
           PathCalled("push_back", Path_push_back(graph, store.keys, destination), destination)

PathPushFront ==
    /\ PathAlive
    /\ store # NoStore
    /\ \E destination \in PathSelectors :
           PathCalled("push_front", Path_push_front(graph, store.keys, destination), destination)

PathPopBack ==
    /\ PathAlive
    /\ store # NoStore
    /\ PathCalled("pop_back", Path_pop_back(store.keys), NoKey)

PathPopFront ==
    /\ PathAlive
    /\ store # NoStore
    /\ PathCalled("pop_front", Path_pop_front(store.keys), NoKey)

NextPath ==
    \/ PathBind
    \/ PathPushBack
    \/ PathPushFront
    \/ PathPopBack
    \/ PathPopFront

SpecPath == InitPath /\ [][NextPath]_vars

\* ------------------------------------------------------------------------
\* The storage of an EdgeMutation under get_or_insert_edge_with
\* (graph/mutation/edge.rs)
\* ------------------------------------------------------------------------

\* The number of calls on the mutation explored from each mesh.
MaxEdgeOps == 3

\* Vertices without arcs, one triangle and two triangles sharing an edge.
EdgeFixtures ==
    {from_raw_buffers(3, <<>>), from_raw_buffers_with_arity(3), two_polygons(3)}

\* The composite key of no edge.
NoEdge == [edge |-> NoKey, ab |-> NoArc, ba |-> NoArc]

InitEdge ==
    /\ graph \in EdgeFixtures
    /\ last = [op |-> "new", err |-> Ok, val |-> NoEdge]
    /\ ops = 0
    /\ txn = NoTxn
    /\ store = NoStore

\* graph is the storage inside the mutation: a call that fails leaves in it
\* what it did before failing.  last.source is the span or the arc named,
\* last.val the composite key that get_or_insert_edge_with returned.
EdgeCalled(op, res, source) ==
    /\ graph' = res.m
    /\ last' = [op |-> op, err |-> res.err, source |-> source,
                val |-> IF op = "get_or_insert_edge" /\ res.err = Ok THEN res.val ELSE NoEdge]
    /\ ops' = ops + 1
    /\ UNCHANGED <<txn, store>>

EdgeAlive == ops < MaxEdgeOps

\* mutation.get_or_insert_edge_with((a, b), ..), also with the key of no
\* vertex.
EdgeGetOrInsert ==
    /\ EdgeAlive
    /\ \E a \in VertexKeys, b \in VertexKeys :
           EdgeCalled("get_or_insert_edge", get_or_insert_edge_with(graph, a, b), <<a, b>>)

\* mutation.connect_arc_to_edge(ab, e) with any arc and any edge.
EdgeConnectArc ==
    /\ EdgeAlive
    /\ \E ab \in DOMAIN graph.arcs, e \in DOMAIN graph.edges.map :
           EdgeCalled("connect_arc_to_edge", connect_arc_to_edge(graph, ab, e), ab)

\* The first remove_arc_with_cache of an edge removal, of an arc without a
\* face: the arc is gone and its opposite arc is still there.
EdgeRemoveArc ==
    /\ EdgeAlive
    /\ \E ab \in {x \in DOMAIN graph.arcs : graph.arcs[x].face = NoKey} :
           EdgeCalled("remove_arc",
                      remove_arc_with_cache(graph, [ab |-> ab, xa |-> NoArc, bx |-> NoArc,
                                                    cache |-> NoCache]), ab)

NextEdge ==
    \/ EdgeGetOrInsert
    \/ EdgeConnectArc
    \/ EdgeRemoveArc

SpecEdge == InitEdge /\ [][NextEdge]_vars

\* ------------------------------------------------------------------------
\* Edge splits and edge removals through ArcView (graph/edge.rs)
\* ------------------------------------------------------------------------

\* The number of splits and removals explored from each mesh.
MaxSplitOps == 2

\* A triangle, a quadrilateral, two triangles and two quadrilaterals sharing
\* an edge, a tetrahedron and the bridged triangles.
SplitFixtures ==
    {from_raw_buffers_with_arity(3), from_raw_buffers_with_arity(4), two_polygons(3),
     two_polygons(4), from_raw_buffers(4, tetrahedron(0)), bridged_triangles}

InitSplit ==
    /\ graph \in SplitFixtures
    /\ last = [op |-> "new", err |-> Ok, val |-> NoKey]
    /\ ops = 0
    /\ txn = NoTxn
    /\ store = NoStore

\* The calls explored end at the first call that fails.
SplitAlive == last.err = Ok /\ ops < MaxSplitOps

\* graph.arc_mut(ab).split_at_midpoint(): last.source and last.destination
\* are the endpoints of the arc, last.val the inserted vertex.
EdgeSplitCall ==
    /\ SplitAlive
    /\ \E ab \in DOMAIN graph.arcs :
           Called("split_edge", ArcView_split(graph, ab), NoKey, ab[1], ab[2])

\* graph.arc_mut(ab).remove().
EdgeRemoveCall ==
    /\ SplitAlive
    /\ \E ab \in DOMAIN graph.arcs :
           Called("remove_edge", ArcView_remove(graph, ab), NoKey, ab[1], ab[2])

NextSplit ==
    \/ EdgeSplitCall
    \/ EdgeRemoveCall

SpecSplit == InitSplit /\ [][NextSplit]_vars

\* ------------------------------------------------------------------------
\* The Option inside a Replace, from replace() to the end of the value
\* (graph/mutation/mod.rs)
\* ------------------------------------------------------------------------

\* Replace { mutation: Some((container, N::mutate(mutant))) }: the Option,
\* how often drain() took it, how often the inner mutation was committed
\* and aborted, whether unwrap() met None, whether mem::forget got the value.
Life_replace ==
    [option |-> "some", drains |-> 0, commits |-> 0, aborts |-> 0,
     unwrapped_none |-> FALSE, forgotten |-> FALSE, how |-> "open"]

\* No Replace exists.
NoLife == [Life_replace EXCEPT !.option = "none", !.how = "none"]

\* Replace::drain: self.mutation.take().unwrap().
Life_drain(self) ==
    IF self.option = "some" THEN [self EXCEPT !.option = "none", !.drains = @ + 1]
    ELSE [self EXCEPT !.unwrapped_none = TRUE]

\* Replace::drain_and_commit: drain, then mutation.commit(), which consumes
\* the inner mutation whether it returns Ok or Err.
Life_drain_and_commit(self) ==
    LET drained == Life_drain(self)
    IN  IF drained.unwrapped_none THEN drained ELSE [drained EXCEPT !.commits = @ + 1]

\* Replace::drain_and_abort: drain, then mutation.abort().
Life_drain_and_abort(self) ==
    LET drained == Life_drain(self)
    IN  IF drained.unwrapped_none THEN drained ELSE [drained EXCEPT !.aborts = @ + 1]

\* A mem::forget that forgets nothing.
Life_forget_nothing(self) == self

\* mem::forget(self): the destructor of the value will not run.
Life_forget(self) == [self EXCEPT !.forgotten = TRUE]

\* The value goes out of scope: Drop::drop runs drain_and_abort unless the
\* value was forgotten.
Life_drop(self) ==
    IF self.forgotten \/ self.unwrapped_none THEN self ELSE Life_drain_and_abort(self)

\* Mutate::commit for Replace, up to the end of `self`.
Life_commit(self) == Life_drop(Life_forget(Life_drain_and_commit(self)))

\* Mutate::abort for Replace, up to the end of `self`.
Life_abort(self) == Life_drop(Life_forget(Life_drain_and_abort(self)))

\* Mutate::commit_with: commit when the closure returned Ok, abort otherwise.
Life_commit_with(self, output) ==
    IF output.err = Ok THEN Life_commit(self) ELSE Life_abort(self)

\* The outcomes of N::commit for any inner mutation N: Mutation::commit
\* itself returns Ok, another N may return an error.
InnerCommits(mutation) == {Mutation_commit(mutation), Res(TopologyMalformed, mutation, NoKey)}

InitLife ==
    /\ graph = DefaultCore
    /\ last = [op |-> "new", err |-> Ok, val |-> NoKey]
    /\ ops = 0
    /\ store = NoLife
    /\ txn = [pc |-> "idle", container |-> DefaultCore, mutation |-> Drained,
              before |-> DefaultCore, out |-> NoOut]

LifeAdvance(next, life) ==
    /\ ops < MaxOps
    /\ txn' = next
    /\ store' = life
    /\ ops' = ops + 1
    /\ UNCHANGED <<graph, last>>

LifeClose(how, closure, res, life) ==
    LifeAdvance([pc |-> "idle", container |-> res.graph, mutation |-> Drained,
                 before |-> txn.before,
                 out |-> [how |-> how, err |-> res.err, val |-> res.val, closure |-> closure]],
                [life EXCEPT !.how = how])

\* Mutate::mutate(&mut container).
LifeBegin ==
    /\ txn.pc = "idle"
    /\ LET self == Replace_mutate(txn.container)
       IN  LifeAdvance([pc |-> "open", container |-> self.container,
                        mutation |-> self.mutation, before |-> txn.container, out |-> NoOut],
                       Life_replace)

\* A call on the mutation through as_mut.
LifeEdit ==
    /\ txn.pc = "open"
    /\ \E edit \in EditsOf(txn.mutation) :
           LifeAdvance([txn EXCEPT !.mutation = ApplyEdit(txn.mutation, edit).m], store)

\* replace.commit(), the inner commit succeeding or failing.
LifeCommit ==
    /\ txn.pc = "open"
    /\ \E inner \in InnerCommits(txn.mutation) :
           LET c == Replace_drain_and_commit([container |-> txn.container,
                                              mutation |-> txn.mutation], inner)
           IN  LifeClose("commit", Res(Ok, txn.mutation, NoKey),
                         Out(c.container, c.err, NoKey), Life_commit(store))

\* replace.commit_with(closure), the closure and the inner commit
\* succeeding or failing.
LifeCommitWith ==
    /\ txn.pc = "open"
    /\ \E edit \in EditsOf(txn.mutation) :
           \A output \in {ApplyEdit(txn.mutation, edit)} :
               IF output.err = Ok
               THEN \E inner \in InnerCommits(output.m) :
                        LET c == Replace_drain_and_commit([container |-> txn.container,
                                                           mutation |-> txn.mutation], inner)
                        IN  LifeClose("commit_with", output,
                                      Out(c.container, c.err, output.val),
                                      Life_commit_with(store, output))
               ELSE LET a == Replace_drain_and_abort([container |-> txn.container,
                                                      mutation |-> txn.mutation])
                    IN  LifeClose("commit_with", output, Out(a.container, output.err, NoKey),
                                  Life_commit_with(store, output))

\* replace.abort().
LifeAbort ==
    /\ txn.pc = "open"
    /\ LET a == Replace_abort([container |-> txn.container, mutation |-> txn.mutation])
       IN  LifeClose("abort", Res(Ok, txn.mutation, NoKey), Out(a.container, a.err, NoKey),
                     Life_abort(store))

\* The Replace goes out of scope without commit or abort.
LifeDrop ==
    /\ txn.pc = "open"
    /\ LET a == Replace_drop([container |-> txn.container, mutation |-> txn.mutation])
       IN  LifeClose("drop", Res(Ok, txn.mutation, NoKey), Out(a.container, a.err, NoKey),
                     Life_drop(store))

NextLife ==
    \/ LifeBegin
    \/ LifeEdit
    \/ LifeCommit
    \/ LifeCommitWith
    \/ LifeAbort
    \/ LifeDrop

SpecLife == InitLife /\ [][NextLife]_vars

\* ------------------------------------------------------------------------
\* Properties of the committed mesh
\* ------------------------------------------------------------------------

Arcs == DOMAIN graph.arcs

\* The arcs reached from ab by following next, in order, ab first, and
\* whether the walk leaves the arcs or does not come back to ab.
RECURSIVE NextWalk(_, _, _, _)
NextWalk(g, ab, acc, fuel) ==
    IF ~HasArc(g, ab) THEN [arcs |-> acc, closed |-> FALSE]
    ELSE IF acc # <<>> /\ ab = acc[1] THEN [arcs |-> acc, closed |-> TRUE]
    ELSE IF fuel = 0 THEN [arcs |-> acc, closed |-> FALSE]
    ELSE NextWalk(g, g.arcs[ab].next, Append(acc, ab), fuel - 1)

RingOf(ab) == NextWalk(graph, ab, <<>>, Fuel(graph))

\* C3: for every arc x of the committed mesh, if x.next = y then y exists
\* and y.previous = x, and if x.previous = w then w exists and w.next = x.
NextPreviousInverse ==
    \A x \in Arcs :
        /\ graph.arcs[x].next # NoArc =>
               /\ HasArc(graph, graph.arcs[x].next)
               /\ graph.arcs[graph.arcs[x].next].previous = x
        /\ graph.arcs[x].previous # NoArc =>
               /\ HasArc(graph, graph.arcs[x].previous)
               /\ graph.arcs[graph.arcs[x].previous].next = x

\* C4: for every arc AB of the committed mesh the opposite arc BA is
\* present, and both name the same edge, which exists.
OppositeSharesEdge ==
    \A ab \in Arcs :
        /\ HasArc(graph, Opposite(ab))
        /\ graph.arcs[ab].edge # NoKey
        /\ graph.arcs[ab].edge = graph.arcs[Opposite(ab)].edge
        /\ Storage_contains(graph.edges, graph.arcs[ab].edge)

\* C5: following next from any arc of the committed mesh returns to that
\* arc, after at least 3 steps.
RingsClosedOfLengthThree ==
    \A ab \in Arcs : RingOf(ab).closed /\ Len(RingOf(ab).arcs) >= 3

\* C6: if an arc has face f then f exists, every arc reached from it by
\* next has face f, and the leading arc of f is one of those arcs.
FaceConsistentAlongRing ==
    \A ab \in Arcs :
        LET f == graph.arcs[ab].face
            ring == RingOf(ab).arcs
        IN  f # NoKey =>
                /\ HasFace(graph, f)
                /\ \A i \in 1..Len(ring) : graph.arcs[ring[i]].face = f
                /\ \E i \in 1..Len(ring) : ring[i] = graph.faces.map[f].arc

\* C7: the leading arc of every vertex v, when set, is a key whose source
\* endpoint is v.
VertexArcLeavesVertex ==
    \A v \in DOMAIN graph.vertices.map :
        graph.vertices.map[v].arc # NoArc => graph.vertices.map[v].arc[1] = v

\* The container of an ended Replace that did not commit: its closure
\* failed, it was aborted, or it was dropped.
Uncommitted ==
    /\ txn.pc = "idle"
    /\ \/ txn.out.how \in {"abort", "drop"}
       \/ txn.out.how = "commit_with" /\ txn.out.closure.err # Ok

\* C1: after the closure of commit_with fails, after abort(), or after the
\* Replace is dropped, the container holds exactly the storage it held
\* before the mutation began.
RestoredWhenNotCommitted == Uncommitted => txn.container = txn.before

\* C2: when the closure of commit_with returns Ok(v), the commit succeeds,
\* the container holds the storage as the closure left it, and v is returned.
CommitWithInstallsEdited ==
    (txn.pc = "idle" /\ txn.out.how = "commit_with" /\ txn.out.closure.err = Ok) =>
        /\ txn.out.err = Ok
        /\ txn.container = txn.out.closure.m
        /\ txn.out.val = txn.out.closure.val

\* A commit_with whose closure changed a container that was not empty.
CommitWithInstallsEditedWitness ==
    /\ txn.pc = "idle" /\ txn.out.how = "commit_with" /\ txn.out.closure.err = Ok
    /\ txn.before # DefaultCore
    /\ txn.container # txn.before

\* A committed mesh with arcs, after an edge was split.
OppositeSharesEdgeWitness ==
    last.op = "split_edge" /\ last.err = Ok /\ Arcs # {}

\* A vertex with a leading arc, after an edge was removed.
VertexArcLeavesVertexWitness ==
    /\ last.op = "remove_edge" /\ last.err = Ok
    /\ \E v \in DOMAIN graph.vertices.map : graph.vertices.map[v].arc # NoArc

FacesOf(g) == DOMAIN g.faces.map

\* The face keys that were handed out and whose face has been removed.
StaleFaceKeys(g) == {k \in 0..(g.faces.gen - 1) : k \notin FacesOf(g)}

\* Every lookup and every snapshot with a stale key fails; a bridge to a
\* stale key fails with the error of its source when that one fails first.
StaleKeysFail(g) ==
    \A k \in StaleFaceKeys(g) :
        /\ FaceRemoveCache_snapshot(g, k).err = TopologyNotFound
        /\ FacePokeCache_snapshot(g, k).err = TopologyNotFound
        /\ FaceExtrudeCache_snapshot(g, k).err = TopologyNotFound
        /\ FaceSplitCache_snapshot(g, k, ByIndex(0), ByIndex(2)).err = TopologyNotFound
        /\ \A o \in 0..g.faces.gen :
               /\ FaceBridgeCache_snapshot(g, k, o).err = TopologyNotFound
               /\ FaceBridgeCache_snapshot(g, o, k).err # Ok
        /\ FaceView_remove(g, k) = Out(g, TopologyNotFound, NoKey)
        /\ FaceView_poke_with(g, k) = Out(g, TopologyNotFound, NoKey)

\* The faces an operation may remove: none, or the faces it acts on.
RemovesAtMost(op) ==
    IF op \in {"insert_vertex", "insert_face", "split_edge", "bridge_arc", "extrude_arc"} THEN 0
    ELSE IF op \in {"remove_face", "split_face", "poke_face", "extrude_face"} THEN 1
    ELSE IF op \in {"merge_face", "bridge_face", "remove_edge"} THEN 2
    ELSE Cardinality(FacesOf(graph))

StaleStep ==
    /\ StaleKeysFail(graph')
    /\ \A k \in StaleFaceKeys(graph) : k \notin FacesOf(graph')
    /\ (last'.op = "insert_face" /\ last'.err = Ok) =>
           /\ last'.val \in FacesOf(graph')
           /\ last'.val \notin FacesOf(graph) \cup StaleFaceKeys(graph)
    /\ last'.err \notin {Panic, Hang} =>
           /\ Cardinality(FacesOf(graph) \ FacesOf(graph')) <= RemovesAtMost(last'.op)
           /\ last'.err # Ok => FacesOf(graph) \subseteq FacesOf(graph')

\* C8: the key of a removed face is stale: lookups and snapshots with it
\* fail with TopologyNotFound, no insertion returns it again, and an
\* operation removes no face but the ones it acts on.
StaleFaceKeysStayStale == [][StaleStep]_vars

\* A face is inserted while the key of a removed face is stale.
StaleFaceKeysStayStaleWitness ==
    last.op = "insert_face" /\ last.err = Ok /\ StaleFaceKeys(graph) # {}

\* C9: every insert returns a key that had no entry and that no earlier
\* insert returned, len() grows by exactly 1, get of the key returns the
\* payload, and get of a key without an entry returns None.
InsertReturnsFreshKey ==
    /\ store.seen.op = "insert" =>
           /\ ~store.seen.present
           /\ ~store.repeated
           /\ Storage_len(store.s) = store.seen.len_before + 1
           /\ store.seen.found = store.seen.item
    /\ (store.seen.op = "get" /\ ~store.seen.present) => store.seen.found = NoItem

\* Position of the vertex a selector names among the vertices vs of a ring,
\* counted from 0; -1 when it names none.
Position(vs, selector) ==
    IF selector.by = "index"
    THEN IF selector.at < Len(vs) THEN selector.at ELSE -1
    ELSE IF \E p \in 1..Len(vs) : vs[p] = selector.at
         THEN (CHOOSE p \in 1..Len(vs) :
                   vs[p] = selector.at /\ \A q \in 1..(p - 1) : vs[q] # selector.at) - 1
         ELSE -1

ShorterWay(i, j, n) ==
    LET d == IF i >= j THEN i - j ELSE j - i
    IN  IF d <= n - d THEN d ELSE n - d

\* C10: distance(s, t) on a ring of n vertices is min(|i-j|, n-|i-j|) for
\* the positions i and j of s and t; a selector that names no vertex of the
\* ring yields TopologyNotFound; on a quad distance(v0,v2) = 2,
\* distance(v0,v3) = 1 and distance(v0,v0) = 0.
DistanceIsShorterWay ==
    last.op = "distance" =>
        LET vs == vertices(graph, last.start)
            n == Len(vs)
            i == Position(vs, last.source)
            j == Position(vs, last.destination)
        IN  /\ (i = -1 \/ j = -1) => last.err = TopologyNotFound
            /\ (i # -1 /\ j # -1) => last.err = Ok /\ last.val = ShorterWay(i, j, n)
            /\ (n = 4 /\ last.source = ByKey(vs[1])) =>
                   /\ last.destination = ByKey(vs[3]) => last.val = 2
                   /\ last.destination = ByKey(vs[4]) => last.val = 1
                   /\ last.destination = ByKey(vs[1]) => last.val = 0

\* distance(v0, v3) on a quad.
DistanceIsShorterWayWitness ==
    /\ last.op = "distance" /\ last.err = Ok
    /\ Len(vertices(graph, last.start)) = 4
    /\ last.source = ByKey(vertices(graph, last.start)[1])
    /\ last.destination = ByKey(vertices(graph, last.start)[4])

\* ------------------------------------------------------------------------
\* Properties of the face operations
\* ------------------------------------------------------------------------

\* The ring of the face named by the call that led to the next state, in the
\* mesh before the call.
CalledRing == vertices(graph, graph.faces.map[last'.face].arc)

\* The call that led to the next state named a face with a closed ring.
CalledOnFace(op) ==
    /\ last'.op = op
    /\ HasFace(graph, last'.face)
    /\ ~Diverges(graph, graph.faces.map[last'.face].arc)

SplitFailureStep ==
    CalledOnFace("split") =>
        \A vs \in {CalledRing} :
        \A i \in {Position(vs, last'.source)}, j \in {Position(vs, last'.destination)} :
            /\ (i = -1 \/ j = -1) => last'.err = TopologyNotFound
            /\ (i # -1 /\ j # -1 /\ ShorterWay(i, j, Len(vs)) <= 1)
                   => last'.err = TopologyMalformed
            /\ last'.err \in {TopologyNotFound, TopologyMalformed} => graph' = graph

\* C11: a face split whose two vertices are at ring distance 0 or 1 fails
\* with TopologyMalformed, one whose selector names no vertex of the ring or
\* an index out of range fails with TopologyNotFound, and after either
\* failure the mesh is the mesh before the call.
SplitFailsInSnapshot == [][SplitFailureStep]_vars

\* The vertices of the cycle vs from position i to position j.
CyclicWalk(vs, i, j) ==
    [k \in 1..(((j - i) % Len(vs)) + 1) |-> vs[((i + k - 1) % Len(vs)) + 1]]

\* Two sequences are the same cycle read from different starting points.
SameCycle(a, b) ==
    /\ Len(a) = Len(b)
    /\ \E r \in 0..(Len(a) - 1) : \A k \in 1..Len(a) : a[k] = b[((k - 1 + r) % Len(a)) + 1]

\* The ring of a face of the mesh after the call, <<>> when it is not closed.
RingAfter(f) ==
    IF Diverges(graph', graph'.faces.map[f].arc) THEN <<>>
    ELSE vertices(graph', graph'.faces.map[f].arc)

SplitPerimetersStep ==
    (CalledOnFace("split") /\ last'.err = Ok) =>
        \A vs \in {CalledRing}, new \in {FacesOf(graph') \ FacesOf(graph)} :
        \A i \in {Position(vs, last'.source)}, j \in {Position(vs, last'.destination)} :
            /\ ShorterWay(i, j, Len(vs)) >= 2
            /\ FacesOf(graph) \ FacesOf(graph') = {last'.face}
            /\ Cardinality(new) = 2
            /\ \E f \in new, g \in new :
                   /\ f # g
                   /\ \E left \in {RingAfter(f)}, right \in {RingAfter(g)} :
                          /\ \E walk \in {CyclicWalk(vs, i, j)} : SameCycle(left, walk)
                          /\ \E walk \in {CyclicWalk(vs, j, i)} : SameCycle(right, walk)
                          /\ Len(left) + Len(right) = Len(vs) + 2
                          /\ \A p \in 1..Len(vs) : (p - 1) \notin {i, j} =>
                                 (vs[p] \in Range(left)) # (vs[p] \in Range(right))

\* C12: a face split between two ring vertices at distance 2 or more removes
\* the face and inserts exactly two faces, whose rings are the vertices from
\* the source round to the destination and from the destination round to the
\* source, both ends included; their arities sum to the arity plus 2 and
\* every other vertex of the ring is on exactly one of them.
SplitMakesTwoPerimeters == [][SplitPerimetersStep]_vars

SplitReturnStep ==
    (CalledOnFace("split") /\ last'.err = Ok) =>
        \A vs \in {CalledRing}, new \in {FacesOf(graph') \ FacesOf(graph)} :
        \A s \in {vs[Position(vs, last'.source) + 1]},
           d \in {vs[Position(vs, last'.destination) + 1]} :
            /\ last'.val = <<s, d>>
            /\ HasArc(graph', <<s, d>>) /\ HasArc(graph', <<d, s>>)
            /\ graph'.arcs[<<s, d>>].face \in new
            /\ graph'.arcs[<<d, s>>].face \in new
            /\ graph'.arcs[<<s, d>>].face # graph'.arcs[<<d, s>>].face
            /\ Storage_len(graph'.vertices) = Storage_len(graph.vertices)
            /\ Cardinality(DOMAIN graph'.arcs) = Cardinality(DOMAIN graph.arcs) + 2
            /\ Storage_len(graph'.faces) = Storage_len(graph.faces) + 1
            /\ (Storage_len(graph.faces) = 1 /\ Len(vs) = 4 /\ Storage_len(graph.vertices) = 4
                    /\ last'.source = ByIndex(0) /\ last'.destination = ByIndex(2)) =>
                   /\ \A f \in FacesOf(graph') : Len(RingAfter(f)) = 3
                   /\ Cardinality(DOMAIN graph'.arcs) = 10
                   /\ Storage_len(graph'.faces) = 2
                   /\ Storage_len(graph'.vertices) = 4

\* C13: a successful face split returns the arc from the source to the
\* destination; that arc and its opposite exist and lie on the two new
\* faces; the number of vertices is unchanged, the number of arcs grows by 2
\* and the number of faces by 1.  One quad split at indices 0 and 2 gives two
\* faces of arity 3, 10 arcs, 2 faces and 4 vertices.
SplitReturnsBisectingArc == [][SplitReturnStep]_vars

\* The face that the merge of the step names, by key or by position among
\* the neighbours of the face.
MergeDestination ==
    LET neighbors == neighboring_faces(graph, graph.faces.map[last'.face].arc)
    IN  IF last'.destination.by = "key" THEN last'.destination.at
        ELSE IF last'.destination.at < Len(neighbors)
        THEN neighbors[last'.destination.at + 1]
        ELSE NoKey

\* The arcs of the face named by the call whose opposite lies on face g.
SharedArcs(g) ==
    {ab \in Range(interior_arcs(graph, graph.faces.map[last'.face].arc)) :
         graph.arcs[Opposite(ab)].face = g}

\* The ring that is left when the edge of arc ab between the rings fs (of the
\* face of ab) and gs (of the face of its opposite) is taken away.
UnifiedRing(fs, gs, ab) ==
    LET around == CyclicWalk(fs, Position(fs, ByKey(ab[2])), Position(fs, ByKey(ab[1])))
        back == CyclicWalk(gs, Position(gs, ByKey(ab[1])), Position(gs, ByKey(ab[2])))
    IN  around \o SubSeq(back, 2, Len(back) - 1)

MergeStep ==
    CalledOnFace("merge") =>
        \A f \in {last'.face}, g \in {MergeDestination} :
        \A shared \in {SharedArcs(g)} :
            /\ (g = NoKey \/ shared = {}) => last'.err = TopologyNotFound
            /\ (g # f /\ HasFace(graph, g) /\ ~Diverges(graph, graph.faces.map[g].arc)
                    /\ Cardinality(shared) = 1) =>
                   /\ last'.err = Ok
                   /\ FacesOf(graph) \ FacesOf(graph') = {f, g}
                   /\ FacesOf(graph') \ FacesOf(graph) = {last'.val}
                   /\ Storage_len(graph'.faces) = Storage_len(graph.faces) - 1
                   /\ \A ab \in shared :
                          /\ ~HasArc(graph', ab) /\ ~HasArc(graph', Opposite(ab))
                          /\ graph.arcs[ab].edge \notin DOMAIN graph'.edges.map
                          /\ \A fs \in {CalledRing}, gs \in {vertices(graph, graph.faces.map[g].arc)},
                                 merged \in {RingAfter(last'.val)} :
                                 /\ Len(merged) = Len(fs) + Len(gs) - 2
                                 /\ \E unified \in {UnifiedRing(fs, gs, ab)} :
                                        SameCycle(merged, unified)
                                 /\ (Len(fs) = 4 /\ Len(gs) = 4) => Len(merged) = 6

\* C14: merging a face into a neighbouring face that shares exactly one
\* edge with it, chosen by key or by position among the neighbours, removes
\* both faces and the shared edge and leaves one face over the unified ring:
\* one face fewer, of arity arity(f) + arity(g) - 2 (6 for two quads); a
\* destination that is no neighbour yields TopologyNotFound.
MergeUnifiesRings == [][MergeStep]_vars

\* The mesh r.graph has one face r.val over the ring vs and as many faces,
\* edges and arcs as the mesh before the call.
Restores(r, vs) ==
    /\ r.err = Ok
    /\ HasFace(r.graph, r.val)
    /\ ~Diverges(r.graph, r.graph.faces.map[r.val].arc)
    /\ \E ring \in {vertices(r.graph, r.graph.faces.map[r.val].arc)} : SameCycle(ring, vs)
    /\ FacesOf(r.graph) \ {r.val} = FacesOf(graph) \ {last'.face}
    /\ Storage_len(r.graph.faces) = Storage_len(graph.faces)
    /\ Storage_len(r.graph.edges) = Storage_len(graph.edges)
    /\ DOMAIN r.graph.arcs = DOMAIN graph.arcs

SplitMergeStep ==
    (CalledOnFace("split") /\ last'.err = Ok) =>
        \A vs \in {CalledRing} :
        \A left \in {graph'.arcs[last'.val].face},
           right \in {graph'.arcs[Opposite(last'.val)].face} :
            /\ \E r \in {FaceView_merge(graph', left, ByKey(right))} : Restores(r, vs)
            /\ \E r \in {FaceView_merge(graph', right, ByKey(left))} : Restores(r, vs)

\* C15: splitting a face between two ring vertices at distance 2 or more and
\* then merging one of the two faces into the other across the new arc
\* leaves a single face whose ring has the vertices of the original ring in
\* the same cyclic order, and the original numbers of faces, edges and arcs.
SplitThenMergeRestores == [][SplitMergeStep]_vars

\* The faces of the mesh after the call that the mesh before it did not have.
NewFaces == FacesOf(graph') \ FacesOf(graph)

TriangulateStep ==
    CalledOnFace("triangulate") =>
        \A vs \in {CalledRing} :
        \A n \in {Len(vs)} :
            n >= 3 =>
                /\ last'.err = Ok
                /\ graph'.faces.gen = graph.faces.gen + 2 * (n - 3)
                /\ graph'.edges.gen = graph.edges.gen + (n - 3)
                /\ Storage_len(graph'.edges) = Storage_len(graph.edges) + (n - 3)
                /\ Cardinality(DOMAIN graph'.arcs) = Cardinality(DOMAIN graph.arcs) + 2 * (n - 3)
                /\ Storage_len(graph'.faces) = Storage_len(graph.faces) + (n - 3)
                /\ Storage_len(graph'.vertices) = Storage_len(graph.vertices)
                /\ DOMAIN graph'.vertices.map = DOMAIN graph.vertices.map
                /\ n = 3 => NewFaces = {} /\ last'.val = last'.face
                /\ n > 3 => /\ Cardinality(NewFaces) = n - 2
                            /\ FacesOf(graph) \ FacesOf(graph') = {last'.face}
                            /\ last'.val \in NewFaces
                /\ HasFace(graph', last'.val)
                /\ Len(RingAfter(last'.val)) = 3
                /\ \A f \in NewFaces : \E ring \in {RingAfter(f)} :
                       Len(ring) = 3 /\ Range(ring) \subseteq Range(vs)
                /\ \A p \in 1..n :
                       \E f \in NewFaces \cup {last'.val} :
                           \E k \in 1..3 : RingAfter(f)[k] = vs[p]
                                            /\ RingAfter(f)[(k % 3) + 1] = vs[(p % n) + 1]
                /\ graph = cube =>
                       \E all \in {MeshGraph_triangulate(cube)} :
                           /\ all.err = Ok
                           /\ Storage_len(all.graph.faces) = 12
                           /\ Storage_len(all.graph.edges) = 18
                           /\ Cardinality(DOMAIN all.graph.arcs) = 36
                           /\ Storage_len(all.graph.vertices) = 8

\* C16: triangulating a face of arity n >= 3 makes exactly n - 3 splits;
\* afterwards the ring is covered by n - 2 faces of arity 3 (every arc of
\* the ring lies on one of them), the face returned has arity 3 and the
\* vertices are the same.  Triangulating all 6 quads of the cube gives 12
\* faces, 18 edges, 36 arcs and 8 vertices.
TriangulateSplitsIntoTriangles == [][TriangulateStep]_vars

TriangulateAgainStep ==
    CalledOnFace("triangulate") =>
        /\ Len(CalledRing) = 3 =>
               last'.err = Ok /\ last'.val = last'.face /\ graph' = graph
        /\ last'.err = Ok =>
               \E again \in {FaceView_triangulate(graph', last'.val)} :
                   again.err = Ok /\ again.val = last'.val /\ again.graph = graph'
        /\ \E once \in {MeshGraph_triangulate(graph)} :
               once.err = Ok =>
                   \E twice \in {MeshGraph_triangulate(once.graph)} :
                       twice.err = Ok /\ twice.graph = once.graph

\* C17: triangulate on a face of arity 3 makes no split and leaves the mesh
\* as it is, so triangulating a face again, and triangulating all faces of a
\* mesh a second time, changes nothing.
TriangulateIsIdempotent == [][TriangulateAgainStep]_vars

RemoveStep ==
    CalledOnFace("remove") =>
        \A interior \in {Range(interior_arcs(graph, graph.faces.map[last'.face].arc))} :
            /\ last'.err = Ok
            /\ FacesOf(graph') = FacesOf(graph) \ {last'.face}
            /\ \A f \in FacesOf(graph') : graph'.faces.map[f] = graph.faces.map[f]
            /\ graph'.faces.gen = graph.faces.gen
            /\ graph'.vertices = graph.vertices
            /\ graph'.edges = graph.edges
            /\ DOMAIN graph'.arcs = DOMAIN graph.arcs
            /\ \A ab \in DOMAIN graph.arcs :
                   /\ graph'.arcs[ab].next = graph.arcs[ab].next
                   /\ graph'.arcs[ab].previous = graph.arcs[ab].previous
                   /\ graph'.arcs[ab].edge = graph.arcs[ab].edge
                   /\ graph'.arcs[ab].face =
                          IF ab \in interior THEN NoKey ELSE graph.arcs[ab].face
            /\ last'.val = graph.faces.map[last'.face].arc
            /\ ~Diverges(graph', last'.val)
            /\ interior_arcs(graph', last'.val) = interior_arcs(graph, last'.val)
            /\ \A ab \in interior : is_boundary_arc(graph', ab)
            /\ (graph = bipyramid) =>
                   Storage_len(graph'.faces) = 5 /\ arity(graph', last'.val) = 3

\* C18: removing a face deletes that one face and clears the face of
\* exactly its interior arcs; vertices, edges, the arcs and their next and
\* previous links, the leading arcs of the vertices and every other face
\* stay as they are, and the former perimeter is a boundary ring of the same
\* arity (one triangle removed from the mesh of 6 triangles: 5 faces, a ring
\* of arity 3).
RemoveIsShallow == [][RemoveStep]_vars

\* One triangle of the mesh of 6 triangles has been removed.
RemoveIsShallowWitness ==
    /\ last.op = "remove" /\ last.err = Ok
    /\ ops = 1
    /\ Storage_len(graph.faces) = 5 /\ Storage_len(graph.vertices) = 5
    /\ arity(graph, last.val) = 3
    /\ is_boundary_arc(graph, last.val)

PokeStep ==
    CalledOnFace("poke") =>
        /\ last'.err = Ok
        /\ \A vs \in {CalledRing}, c \in {last'.val}, new \in {NewFaces} :
           \A n \in {Len(vs)}, fan \in {VertexView_neighboring_faces(graph', c)} :
            /\ ~HasFace(graph', last'.face)
            /\ FacesOf(graph) \ FacesOf(graph') = {last'.face}
            /\ c = graph.vertices.gen
            /\ DOMAIN graph'.vertices.map = DOMAIN graph.vertices.map \cup {c}
            /\ c \notin DOMAIN graph.vertices.map
            /\ Cardinality(new) = n
            /\ \A i \in 1..n :
                   \E f \in new : SameCycle(RingAfter(f), <<vs[i], vs[(i % n) + 1], c>>)
            /\ \A f \in new : arity(graph', graph'.faces.map[f].arc) = 3
            /\ Len(fan) = n
            /\ Range(fan) = new
            /\ Storage_len(graph'.vertices) = Storage_len(graph.vertices) + 1
            /\ Storage_len(graph'.faces) = Storage_len(graph.faces) + n - 1

\* C19: poking a face of arity n deletes the face and inserts one vertex c
\* and n faces, one with the ring a, b, c for each arc (a, b) of the old
\* ring; c then has n neighbouring faces, all of arity 3, the mesh has one
\* vertex more and n - 1 faces more (4 neighbours on a face of the cube, 3
\* on one of the triangles that poke made).
PokeMakesFan == [][PokeStep]_vars

ExtrudeStep ==
    CalledOnFace("extrude") =>
        /\ last'.err = Ok
        /\ \A vs \in {CalledRing}, new \in {NewFaces}, top \in {last'.val} :
           \A n \in {Len(vs)}, base \in {graph.vertices.gen} :
            /\ ~HasFace(graph', last'.face)
            /\ FacesOf(graph) \ FacesOf(graph') = {last'.face}
            /\ DOMAIN graph'.vertices.map =
                   DOMAIN graph.vertices.map \cup {base + i - 1 : i \in 1..n}
            /\ top \in new
            /\ RingAfter(top) = [i \in 1..n |-> base + (i % n)]
            /\ Cardinality(new) = n + 1
            /\ \A i \in 1..n :
                   \E f \in new \ {top} :
                       SameCycle(RingAfter(f), <<vs[i], vs[(i % n) + 1],
                                                 base + (i % n), base + i - 1>>)
            /\ Storage_len(graph'.vertices) = Storage_len(graph.vertices) + n
            /\ Storage_len(graph'.faces) = Storage_len(graph.faces) + n
            /\ Cardinality(DOMAIN graph'.arcs) = Cardinality(DOMAIN graph.arcs) + 4 * n
            /\ Len(neighboring_faces(graph', graph'.faces.map[top].arc)) = n
            /\ Range(neighboring_faces(graph', graph'.faces.map[top].arc)) = new \ {top}
            /\ (graph = bipyramid) =>
                   /\ Storage_len(graph'.faces) = 9
                   /\ Storage_len(graph'.vertices) = 8
                   /\ Cardinality(DOMAIN graph'.arcs) = 30

\* C20: extruding a face of arity n deletes the face and inserts n
\* vertices, one face of arity n over them and n quadrilaterals, one for
\* each arc of the old ring; the mesh has n vertices, n faces and 4n arcs
\* more, and the face returned has n neighbouring faces (a triangle of the
\* mesh of 6 triangles, 5 vertices and 18 arcs: 9 faces, 8 vertices, 30
\* arcs, 3 neighbours).
ExtrudeMakesPrism == [][ExtrudeStep]_vars

\* ------------------------------------------------------------------------
\* Properties of the bridges and of the arc extrusion
\* ------------------------------------------------------------------------

\* Faces with a closed ring.
Ringed(g, f) == HasFace(g, f) /\ ~Diverges(g, g.faces.map[f].arc)

FaceBridgeStep ==
    (last'.op = "bridge_face" /\ Ringed(graph, last'.face)) =>
        \A source \in {last'.face}, destination \in {last'.destination} :
            /\ ~HasFace(graph, destination) =>
                   last'.err = TopologyNotFound /\ graph' = graph
            /\ (Ringed(graph, destination)
                    /\ arity(graph, graph.faces.map[source].arc)
                           # arity(graph, graph.faces.map[destination].arc)) =>
                   last'.err = ArityNonUniform /\ graph' = graph
            /\ last'.err = Ok =>
                   \A n \in {arity(graph, graph.faces.map[source].arc)} :
                       /\ FacesOf(graph) \ FacesOf(graph') = {source, destination}
                       /\ source # destination
                       /\ Cardinality(NewFaces) = n
                       /\ \A f \in NewFaces : Len(RingAfter(f)) = 4

\* C21: a face bridge to a face that does not exist fails with
\* TopologyNotFound and one between faces of different arity with
\* ArityNonUniform, and the mesh is then the mesh before the call; a bridge
\* that succeeds on faces of arity n removes both and inserts n
\* quadrilaterals.
FaceBridgeChecksArity == [][FaceBridgeStep]_vars

\* Two triangles of the two tetrahedra have been bridged with three
\* quadrilaterals.
FaceBridgeChecksArityWitness ==
    /\ last.op = "bridge_face" /\ last.err = Ok
    /\ Storage_len(graph.faces) = 9
    /\ Cardinality({f \in FacesOf(graph) : arity(graph, graph.faces.map[f].arc) = 4}) = 3

\* A triangle has not been bridged to a quadrilateral.
FaceBridgeRefusedWitness ==
    /\ last.op = "bridge_face" /\ last.err = ArityNonUniform
    /\ Storage_len(graph.faces) = 2

\* The vertices A, B, C, D of the arc bridge called in the step.
BridgedQuad ==
    <<last'.source[1], last'.source[2], last'.destination[1], last'.destination[2]>>

\* An arc bridge between two arcs of the mesh has been called.
ArcBridgeCalled ==
    /\ last'.op = "bridge_arc"
    /\ HasArc(graph, last'.source)
    /\ HasArc(graph, last'.destination)

\* One of the arcs AB, BC, CD, DA exists and has a face.
QuadArcHasFace ==
    \E i \in 1..4 :
        /\ HasArc(graph, Perimeter(BridgedQuad)[i])
        /\ graph.arcs[Perimeter(BridgedQuad)[i]].face # NoKey

\* The perimeter A, B, C, D names a vertex twice, or one of its arcs exists,
\* the arc after it does not, and the next arc of the first ends at a vertex
\* of the perimeter.
QuadBisectsRing ==
    \/ Cardinality(Range(BridgedQuad)) # 4
    \/ \E i \in 1..4 :
           \E ab \in {Perimeter(BridgedQuad)[i]}, bc \in {Perimeter(BridgedQuad)[(i % 4) + 1]} :
               /\ HasArc(graph, ab) /\ ~HasArc(graph, bc)
               /\ graph.arcs[ab].next # NoArc
               /\ HasArc(graph, graph.arcs[ab].next)
               /\ graph.arcs[ab].next[2] \in Range(BridgedQuad)

\* The call inserted the face A, B, C, D and nothing else.
QuadInserted ==
    /\ last'.err = Ok
    /\ NewFaces = {last'.val}
    /\ FacesOf(graph) \subseteq FacesOf(graph')
    /\ SameCycle(RingAfter(last'.val), BridgedQuad)
    /\ DOMAIN graph'.vertices.map = DOMAIN graph.vertices.map

ArcBridgeConflictStep ==
    (ArcBridgeCalled /\ QuadArcHasFace) =>
        /\ last'.err = TopologyConflict
        /\ graph' = graph

ArcBridgeStep ==
    /\ ArcBridgeConflictStep
    /\ (ArcBridgeCalled /\ ~QuadArcHasFace) => QuadInserted

ArcBridgeAcceptedStep ==
    /\ ArcBridgeConflictStep
    /\ (ArcBridgeCalled /\ ~QuadArcHasFace) =>
           \A snapshot \in {ArcBridgeCache_snapshot(graph, last'.source, last'.destination)} :
           \A inserted \in {bridge_with_cache(graph, snapshot.val)} :
               /\ snapshot.err = Ok
               /\ QuadBisectsRing =>
                      /\ inserted.err \in {TopologyMalformed, TopologyConflict}
                      /\ inserted.m = graph
                      /\ last'.err # Ok
               /\ last'.err = Ok => QuadInserted

ArcExtrudeStep ==
    (last'.op = "extrude_arc" /\ HasArc(graph, last'.source)) =>
        \A ab \in {last'.source}, c \in {graph.vertices.gen}, d \in {graph.vertices.gen + 1} :
            /\ ~is_boundary_arc(graph, ab) =>
                   last'.err = TopologyConflict /\ graph' = graph
            /\ is_boundary_arc(graph, ab) =>
                   /\ last'.err = Ok
                   /\ last'.val = <<c, d>>
                   /\ DOMAIN graph'.vertices.map = DOMAIN graph.vertices.map \cup {c, d}
                   /\ Storage_len(graph'.vertices) = Storage_len(graph.vertices) + 2
                   /\ Storage_len(graph'.faces) = Storage_len(graph.faces) + 1
                   /\ Storage_len(graph'.edges) = Storage_len(graph.edges) + 3
                   /\ FacesOf(graph) \subseteq FacesOf(graph')
                   /\ \A f \in NewFaces :
                          SameCycle(RingAfter(f), <<ab[1], ab[2], c, d>>)
                   /\ HasArc(graph', <<c, d>>) /\ HasArc(graph', <<d, c>>)
                   /\ graph'.arcs[<<c, d>>].edge = graph'.arcs[<<d, c>>].edge
                   /\ ~is_boundary_arc(graph', ab)
                   /\ graph'.arcs[ab].face \in NewFaces
                   /\ is_boundary_arc(graph', <<d, c>>)

\* C23: an arc extrude of an arc with a face fails with TopologyConflict and
\* leaves the mesh as it is; on a boundary arc AB it inserts the vertices C
\* and D, the edge between them and the face A, B, C, D and returns the arc
\* CD: two vertices, one face and three edges more, AB then has a face and
\* the opposite of CD is a boundary arc.
ArcExtrudeInsertsQuad == [][ArcExtrudeStep]_vars

\* ------------------------------------------------------------------------
\* Properties of the face insert
\* ------------------------------------------------------------------------

\* The perimeter passed by the call that led to the next state.
CalledPerimeter == last'.source

PerimeterRepeats(p) == Cardinality(Range(p)) # Len(p)

PerimeterMissesVertex(p) == \E i \in 1..Len(p) : ~(p[i] \in DOMAIN graph.vertices.map)

\* The would-be interior arc from the i-th vertex of p.
InteriorArc(p, i) == <<p[i], p[(i % Len(p)) + 1]>>

PerimeterArcHasFace(p) ==
    \E i \in 1..Len(p) :
        /\ HasArc(graph, InteriorArc(p, i))
        /\ graph.arcs[InteriorArc(p, i)].face # NoKey

\* AB exists, BC does not, and the next arc of AB ends on the perimeter.
PerimeterBisected(p) ==
    \E i \in 1..Len(p) :
        \A ab \in {InteriorArc(p, i)}, bc \in {InteriorArc(p, (i % Len(p)) + 1)} :
            /\ HasArc(graph, ab)
            /\ ~HasArc(graph, bc)
            /\ HasArc(graph, graph.arcs[ab].next)
            /\ graph.arcs[ab].next[2] \in Range(p)

FaceInsertStep ==
    last'.op = "insert_face" =>
        \A p \in {CalledPerimeter} :
            /\ PerimeterRepeats(p) => last'.err = TopologyMalformed
            /\ (~PerimeterRepeats(p) /\ PerimeterMissesVertex(p))
                   => last'.err = TopologyNotFound
            /\ (~PerimeterRepeats(p) /\ ~PerimeterMissesVertex(p)
                    /\ (PerimeterArcHasFace(p) \/ PerimeterBisected(p)))
                   => last'.err = TopologyConflict
            /\ (PerimeterRepeats(p) \/ PerimeterMissesVertex(p)
                    \/ PerimeterArcHasFace(p) \/ PerimeterBisected(p))
                   => graph' = graph

\* C24: a face insert whose perimeter repeats a vertex key fails with
\* TopologyMalformed; otherwise, if the perimeter names a vertex that does
\* not exist, with TopologyNotFound; otherwise, if one of its interior arcs
\* exists and has a face, or an interior arc AB exists, BC does not and the
\* next arc of AB ends at a vertex of the perimeter, with TopologyConflict.
\* In each case the mesh is left as it was.
FaceInsertValidatesPerimeter == [][FaceInsertStep]_vars

\* A perimeter of existing, distinct vertices none of whose arcs has a face
\* was refused because it would bisect a ring, and nothing was inserted.
FaceInsertValidatesPerimeterWitness ==
    /\ last.op = "insert_face" /\ last.err = TopologyConflict
    /\ Len(last.source) = 4
    /\ \A i \in 1..4 :
           HasArc(graph, InteriorArc(last.source, i))
               => graph.arcs[InteriorArc(last.source, i)].face = NoKey
    /\ Storage_len(graph.faces) = 2

ShortPerimeterStep ==
    (last'.op = "insert_face" /\ Len(CalledPerimeter) < 3) =>
        /\ last'.err \notin {Ok, Hang}
        /\ graph' = graph

\* C25: a face insert given a perimeter of fewer than three vertex keys
\* returns an error and creates no face, arc or edge.
ShortPerimeterIsRefused == [][ShortPerimeterStep]_vars

\* ------------------------------------------------------------------------
\* Properties of the arc circulator
\* ------------------------------------------------------------------------

\* The next chain from the arc the circulator started at.
CirculatedChain == NextWalk(graph, store.start, <<>>, Fuel(graph))

\* The chain from the start arc ends at an arc that has no next arc.
ChainEndsAtNone ==
    /\ ~CirculatedChain.closed
    /\ Len(CirculatedChain.arcs) <= Cardinality(DOMAIN graph.arcs)
    /\ graph.arcs[CirculatedChain.arcs[Len(CirculatedChain.arcs)]].next = NoArc

Shorter(a, b) == IF a <= b THEN a ELSE b

\* C26: a circulator started at an arc of a closed ring of k arcs has
\* emitted, after n calls, the first min(n, k) arcs of the ring in next
\* order from the start arc, all distinct, every call after the k-th has
\* returned None, and the arity counted from that arc is k; if the chain
\* from the start arc ends at an arc without a next arc, the circulator
\* emits the chain up to and including that arc and returns None afterwards.
CirculatorEmitsRingOnce ==
    (store # NoStore /\ (CirculatedChain.closed \/ ChainEndsAtNone)) =>
        \A chain \in {CirculatedChain.arcs} :
            /\ store.emitted = SubSeq(chain, 1, Shorter(store.calls, Len(chain)))
            /\ Cardinality(Range(store.emitted)) = Len(store.emitted)
            /\ store.calls > Len(chain) => store.returned = NoArc
            /\ (store.calls > 0 /\ store.calls <= Len(chain))
                   => store.returned = chain[store.calls]
            /\ CirculatedChain.closed => arity(graph, store.start) = Len(chain)

\* A triangle has been circulated and two more calls have returned None.
CirculatorEmitsRingOnceWitness ==
    /\ store # NoStore
    /\ CirculatedChain.closed
    /\ graph.arcs[store.start].face # NoKey
    /\ Len(store.emitted) = 3
    /\ store.calls = 5

\* A chain of three arcs that ends without a next arc has been circulated.
CirculatorStopsAtNoneWitness ==
    /\ store # NoStore
    /\ ChainEndsAtNone
    /\ Len(store.emitted) = 3
    /\ store.calls = 5

\* C40: the arc circulator terminates on every storage, from every arc and
\* with every assignment of next links: it emits no arc twice, and once it
\* has been called more often than there are arcs it has returned None.
CirculatorTerminates ==
    store # NoStore =>
        /\ Cardinality(Range(store.emitted)) = Len(store.emitted)
        /\ store.calls > Cardinality(DOMAIN graph.arcs) => store.returned = NoArc

\* ------------------------------------------------------------------------
\* Properties of paths
\* ------------------------------------------------------------------------

\* The call that led to the next state pushed onto a bound path.
PushCalled == store # NoStore /\ last'.op \in {"push_back", "push_front"}

\* The endpoint pushed onto and the opposite endpoint.
PushedOnto ==
    IF last'.op = "push_back" THEN Path_endpoints(store.keys)[1]
    ELSE Path_endpoints(store.keys)[2]

OppositeEndpoint ==
    IF last'.op = "push_back" THEN Path_endpoints(store.keys)[2]
    ELSE Path_endpoints(store.keys)[1]

\* The arc that the vertex x forms with the endpoint pushed onto.
ArcFormedWith(x) == IF last'.op = "push_back" THEN <<x, PushedOnto>> ELSE <<PushedOnto, x>>

PathErrors == {TopologyNotFound, TopologyMalformed}

PushRefusedStep ==
    PushCalled =>
        /\ Path_is_closed(store.keys) =>
               last'.err = TopologyMalformed /\ store' = store
        /\ (last'.arg.by = "key" /\ ~HasArc(graph, ArcFormedWith(last'.arg.at))) =>
               last'.err \in PathErrors /\ store' = store

\* C27: a push onto either end of a closed path returns TopologyMalformed
\* and leaves the arcs of the path as they were; a push naming a vertex
\* that forms no arc with the endpoint pushed onto returns an error and
\* leaves the path as it was.
PushOnClosedPathIsRefused == [][PushRefusedStep]_vars

\* The vertices of a path are distinct, except that the first and the last
\* may be the same vertex.
VisitsNoVertexTwice(keys) ==
    \A vs \in {Path_vertices(keys)} :
        \A i \in 1..Len(vs), j \in 1..Len(vs) :
            (i < j /\ vs[i] = vs[j]) => (i = 1 /\ j = Len(vs))

\* Consecutive arcs of a path share a vertex.
PathIsConnected(keys) ==
    \A i \in 1..(Len(keys) - 1) : Path_arcs(keys)[i][2] = Path_arcs(keys)[i + 1][1]

PushRevisitStep ==
    /\ store' # NoStore =>
           VisitsNoVertexTwice(store'.keys) /\ PathIsConnected(store'.keys)
    /\ (PushCalled /\ last'.arg.by = "key" /\ ~Path_is_closed(store.keys)
            /\ last'.arg.at \in Range(Path_vertices(store.keys))) =>
           /\ last'.arg.at # OppositeEndpoint =>
                  last'.err = TopologyMalformed /\ store' = store
           /\ (last'.arg.at = OppositeEndpoint
                   /\ HasArc(graph, ArcFormedWith(last'.arg.at))) =>
                  /\ last'.err = Ok
                  /\ Path_is_closed(store'.keys)
                  /\ Len(store'.keys) = Len(store.keys) + 1

\* C28: after any sequence of bind, pushes and pops a path visits no
\* vertex twice, except that its back and front may be the same vertex; a
\* push onto an open path of a vertex that the path already visits is
\* refused with TopologyMalformed, unless the vertex is the opposite
\* endpoint and forms an arc with the endpoint pushed onto: then the push
\* succeeds and the path is closed.
PathVisitsNoVertexTwice == [][PushRevisitStep]_vars

PathShortStep ==
    /\ (last'.op = "bind" /\ Len(last'.arg) < 2) =>
           last'.err = TopologyMalformed /\ store' = NoStore
    /\ (last'.op = "bind" /\ Len(last'.arg) >= 2
            /\ ~HasArc(graph, <<last'.arg[1], last'.arg[2]>>)) =>
           last'.err = TopologyNotFound /\ store' = NoStore
    /\ (store # NoStore /\ last'.op \in {"pop_back", "pop_front"} /\ Len(store.keys) = 1) =>
           last'.val = NoArc /\ store' = store
    /\ (store # NoStore /\ last'.op = "pop_back" /\ Len(store.keys) > 1) =>
           /\ last'.val = store.keys[Len(store.keys)]
           /\ store'.keys = SubSeq(store.keys, 1, Len(store.keys) - 1)
    /\ (store # NoStore /\ last'.op = "pop_front" /\ Len(store.keys) > 1) =>
           /\ last'.val = store.keys[1]
           /\ store'.keys = Tail(store.keys)
    /\ store' # NoStore =>
           /\ Len(store'.keys) >= 1
           /\ \A i \in 1..Len(store'.keys) : HasArc(graph, store'.keys[i])

\* C29: bind with fewer than two vertex keys fails with TopologyMalformed,
\* and with TopologyNotFound when there is no arc between the first two
\* keys; a pop on a path of one arc returns None and leaves the path as it
\* was, a pop on a longer path takes one arc from that end; so a bound path
\* has at least one arc after every call.
PathKeepsOneArc == [][PathShortStep]_vars

\* A pop has been refused on a path of one arc that pops had shortened.
PathKeepsOneArcWitness ==
    /\ store # NoStore
    /\ Len(store.keys) = 1
    /\ last.op \in {"pop_back", "pop_front"}
    /\ last.val = NoArc
    /\ ops = 5

\* ------------------------------------------------------------------------
\* Properties of the container during and after a Replace
\* ------------------------------------------------------------------------

\* C30: while a Replace is open the container holds the replacement, the
\* default mesh, whatever the mutation has been edited into; after an abort,
\* a drop without commit or a commit_with whose closure failed, the
\* container still holds that replacement.
ContainerHoldsReplacement ==
    /\ txn.pc = "open" => txn.container = DefaultCore
    /\ Uncommitted => txn.container = DefaultCore

\* A Replace of a container that was not empty ended without a commit after
\* its closure failed.
ContainerHoldsReplacementWitness ==
    /\ Uncommitted
    /\ txn.out.how = "commit_with"
    /\ txn.before # DefaultCore
    /\ txn.out.closure.m # txn.before

\* A Replace of a container that was not empty is open and edited.
ReplaceOpenEditedWitness ==
    /\ txn.pc = "open"
    /\ txn.before # DefaultCore
    /\ txn.mutation # txn.before

\* ------------------------------------------------------------------------
\* Properties of get_or_insert_edge_with
\* ------------------------------------------------------------------------

\* The call that led to the next state was get_or_insert_edge_with((A, B)).
GetOrInsertCalled == last'.op = "get_or_insert_edge"

SpanAB == last'.source

SpanBA == Opposite(last'.source)

\* The edge that an arc is bound to, NoKey when the arc is absent or unbound.
BoundEdge(g, ab) == IF HasArc(g, ab) THEN g.arcs[ab].edge ELSE NoKey

GetOrInsertStep ==
    GetOrInsertCalled =>
        /\ (BoundEdge(graph, SpanAB) # NoKey /\ BoundEdge(graph, SpanAB) = BoundEdge(graph, SpanBA)) =>
               /\ last'.err = Ok
               /\ last'.val = [edge |-> BoundEdge(graph, SpanAB), ab |-> SpanAB, ba |-> SpanBA]
               /\ graph' = graph
        /\ (~HasArc(graph, SpanAB) /\ ~HasArc(graph, SpanBA)) =>
               /\ last'.err = Ok
               /\ DOMAIN graph'.arcs = DOMAIN graph.arcs \cup {SpanAB, SpanBA}
               /\ DOMAIN graph'.edges.map = DOMAIN graph.edges.map \cup {last'.val.edge}
               /\ last'.val.edge \notin DOMAIN graph.edges.map
               /\ graph'.arcs[SpanAB].edge = last'.val.edge
               /\ graph'.arcs[SpanBA].edge = last'.val.edge
               /\ last'.val.ab = SpanAB /\ last'.val.ba = SpanBA
               /\ \A x \in DOMAIN graph.arcs : graph'.arcs[x] = graph.arcs[x]
               /\ graph'.faces = graph.faces
               /\ DOMAIN graph'.vertices.map = DOMAIN graph.vertices.map
               /\ \A again \in {get_or_insert_edge_with(graph', SpanAB[1], SpanAB[2])} :
                      /\ again.err = Ok
                      /\ again.val = last'.val
                      /\ again.m = graph'

\* C31: get_or_insert_edge_with on the span (A, B) returns the edge and the
\* two arcs and changes nothing when AB and BA exist bound to the same
\* edge; when neither arc exists it creates the arcs AB and BA and one
\* edge, binds both arcs to it, and a second call then returns the same
\* keys and changes nothing.
GetOrInsertIsIdempotent == [][GetOrInsertStep]_vars

\* An edge has been inserted between two vertices of two triangles that no
\* arc joined.
GetOrInsertIsIdempotentWitness ==
    /\ last.op = "get_or_insert_edge" /\ last.err = Ok
    /\ ops = 1
    /\ Storage_len(graph.edges) = 6
    /\ Cardinality(DOMAIN graph.arcs) = 12

GetOrInsertErrorStep ==
    GetOrInsertCalled =>
        \A e1 \in {BoundEdge(graph, SpanAB)}, e2 \in {BoundEdge(graph, SpanBA)} :
            /\ ((e1 = NoKey) # (e2 = NoKey)) => last'.err = TopologyMalformed
            /\ (e1 # NoKey /\ e2 # NoKey /\ e1 # e2) => last'.err = TopologyMalformed
            /\ last'.err = Ok =>
                   \/ e1 # NoKey /\ e1 = e2
                   \/ /\ e1 = NoKey /\ e2 = NoKey
                      /\ last'.val.edge \notin DOMAIN graph.edges.map
                      /\ graph'.arcs[SpanAB].edge = last'.val.edge
                      /\ graph'.arcs[SpanBA].edge = last'.val.edge

\* C32: get_or_insert_edge_with on the span (A, B) returns
\* TopologyMalformed when exactly one of AB and BA is bound to an edge or
\* both are bound to different edges, and Ok only when both are bound to
\* the same edge or it has just bound both to a new edge.
GetOrInsertRefusesLoneArcs == [][GetOrInsertErrorStep]_vars

\* get_or_insert_edge_with has refused a span one arc of which had been
\* removed.
GetOrInsertRefusesLoneArcsWitness ==
    /\ last.op = "get_or_insert_edge" /\ last.err = TopologyMalformed
    /\ BoundEdge(graph, last.source) = NoKey
    /\ BoundEdge(graph, Opposite(last.source)) # NoKey

GetOrInsertVertexStep ==
    (GetOrInsertCalled
        /\ \E k \in {SpanAB[1], SpanAB[2]} : ~Storage_contains(graph.vertices, k)) =>
        /\ last'.err # Ok
        /\ \A ab \in DOMAIN graph'.arcs \ DOMAIN graph.arcs :
               Storage_contains(graph'.vertices, ab[1]) /\ Storage_contains(graph'.vertices, ab[2])

\* C36: get_or_insert_edge_with called with a span naming a vertex that is
\* not in the vertex storage returns an error and leaves no arc whose
\* endpoint does not exist.
GetOrInsertReportsMissingVertex == [][GetOrInsertVertexStep]_vars

\* ------------------------------------------------------------------------
\* Properties of the edge split and the edge removal
\* ------------------------------------------------------------------------

\* The arc named in the call that led to the next state, and its opposite.
CalledAB == <<last'.source, last'.destination>>

CalledBA == <<last'.destination, last'.source>>

SplitSucceeded == last'.op = "split_edge" /\ last'.err = Ok

\* The arc ab of the graph has been replaced by the arcs (a, m) and (m, b)
\* in the graph after, between the arcs xa and bx: same face, one arc more
\* on the ring.
ReplacedByTwo(ab, m, xa, bx) ==
    LET am == <<ab[1], m>>
        mb == <<m, ab[2]>>
        f == graph.arcs[ab].face
    IN  /\ ~HasArc(graph', ab)
        /\ HasArc(graph', am) /\ HasArc(graph', mb)
        /\ graph'.arcs[am].next = mb /\ graph'.arcs[mb].previous = am
        /\ graph'.arcs[am].previous = xa
        /\ graph'.arcs[mb].next = bx
        /\ xa # NoArc => HasArc(graph', xa) /\ graph'.arcs[xa].next = am
        /\ bx # NoArc => HasArc(graph', bx) /\ graph'.arcs[bx].previous = mb
        /\ graph'.arcs[am].face = f /\ graph'.arcs[mb].face = f
        /\ f # NoKey =>
               /\ HasFace(graph', f)
               /\ ~Diverges(graph', graph'.faces.map[f].arc)
               /\ \A ring \in {interior_arcs(graph', graph'.faces.map[f].arc)} :
                      /\ am \in Range(ring) /\ mb \in Range(ring)
                      /\ ~Diverges(graph, graph.faces.map[f].arc) =>
                             Len(ring) = Len(interior_arcs(graph, graph.faces.map[f].arc)) + 1

\* What a split changes in the storages, whatever the order on the rings.
SplitCounts(m) ==
    /\ ~Storage_contains(graph.vertices, m) /\ Storage_contains(graph'.vertices, m)
    /\ Storage_len(graph'.vertices) = Storage_len(graph.vertices) + 1
    /\ Storage_len(graph'.edges) = Storage_len(graph.edges) + 1
    /\ Cardinality(DOMAIN graph'.arcs) = Cardinality(DOMAIN graph.arcs) + 2
    /\ ~Storage_contains(graph'.edges, graph.arcs[CalledAB].edge)
    /\ HasArc(graph', <<CalledAB[1], m>>) /\ HasArc(graph', <<m, CalledAB[2]>>)
    /\ HasArc(graph', <<CalledAB[2], m>>) /\ HasArc(graph', <<m, CalledAB[1]>>)
    /\ \A e1 \in {graph'.arcs[<<CalledAB[1], m>>].edge},
          e2 \in {graph'.arcs[<<m, CalledAB[2]>>].edge} :
           /\ e1 # e2
           /\ {e1, e2} \cap DOMAIN graph.edges.map = {}
           /\ {e1, e2} \subseteq DOMAIN graph'.edges.map
           /\ graph'.arcs[<<m, CalledAB[1]>>].edge = e1
           /\ graph'.arcs[<<CalledAB[2], m>>].edge = e2

\* The neighbour x of the arc ab after the split at m: x itself, or the half
\* of the opposite arc that meets ab where x was when x is the opposite arc.
PreviousAfterSplit(ab, m) ==
    IF graph.arcs[ab].previous = Opposite(ab) THEN <<m, ab[1]>> ELSE graph.arcs[ab].previous

NextAfterSplit(ab, m) ==
    IF graph.arcs[ab].next = Opposite(ab) THEN <<ab[2], m>> ELSE graph.arcs[ab].next

EdgeSplitRingStep ==
    SplitSucceeded =>
        \A m \in {last'.val} :
            /\ SplitCounts(m)
            /\ ReplacedByTwo(CalledAB, m, PreviousAfterSplit(CalledAB, m), NextAfterSplit(CalledAB, m))
            /\ ReplacedByTwo(CalledBA, m, PreviousAfterSplit(CalledBA, m), NextAfterSplit(CalledBA, m))

\* C33: a successful split of the edge A-B at the new vertex M removes AB,
\* BA and their edge, leaves AM, MB, BM and MA bound in pairs to two new
\* edges, adds one vertex, one edge and two arcs, puts AM, MB between
\* previous(AB) and next(AB) and BM, MA between previous(BA) and next(BA)
\* (a neighbour that is the opposite arc itself being replaced by its half
\* at that vertex), and keeps the faces of AB and BA on the replacing arcs,
\* with the leading arc of each face on its ring and the arity one higher.
EdgeSplitKeepsRingOrder == [][EdgeSplitRingStep]_vars

RemoveSucceeded == last'.op = "remove_edge" /\ last'.err = Ok

\* The faces that the removed arcs had.
RemovedFaces == {graph.arcs[CalledAB].face, graph.arcs[CalledBA].face} \ {NoKey}

\* The arcs xa and ax are linked to each other after the removal.
LinkedAfter(xa, ax) ==
    /\ HasArc(graph', xa) /\ HasArc(graph', ax)
    /\ graph'.arcs[xa].next = ax
    /\ graph'.arcs[ax].previous = xa

EdgeRemoveStep ==
    RemoveSucceeded =>
        /\ DOMAIN graph'.arcs = DOMAIN graph.arcs \ {CalledAB, CalledBA}
        /\ DOMAIN graph'.edges.map = DOMAIN graph.edges.map \ {graph.arcs[CalledAB].edge}
        /\ graph.arcs[CalledAB].edge \in DOMAIN graph.edges.map
        /\ DOMAIN graph'.faces.map = DOMAIN graph.faces.map \ RemovedFaces
        /\ \A f \in RemovedFaces :
               \A x \in Range(interior_arcs(graph, graph.faces.map[f].arc)) \ {CalledAB, CalledBA} :
                   HasArc(graph', x) /\ graph'.arcs[x].face = NoKey
        /\ \A xa \in {graph.arcs[CalledAB].previous}, ax \in {graph.arcs[CalledBA].next} :
               ({xa, ax} \cap {CalledAB, CalledBA, NoArc} = {}) => LinkedAfter(xa, ax)
        /\ \A xb \in {graph.arcs[CalledBA].previous}, bx \in {graph.arcs[CalledAB].next} :
               ({xb, bx} \cap {CalledAB, CalledBA, NoArc} = {}) => LinkedAfter(xb, bx)
        /\ \A x \in DOMAIN graph'.arcs :
               /\ graph'.arcs[x].next \notin {CalledAB, CalledBA}
               /\ graph'.arcs[x].previous \notin {CalledAB, CalledBA}
               /\ graph'.arcs[x].face \notin RemovedFaces
        /\ \A f \in DOMAIN graph'.faces.map :
               graph'.faces.map[f].arc \notin {CalledAB, CalledBA}

\* C34: a successful removal of the edge A-B deletes both arcs and the
\* edge, deletes every face that AB or BA had and leaves the other arcs of
\* those faces without a face, links previous(AB) to next(BA) and
\* previous(BA) to next(AB) when these are not the removed arcs, and leaves
\* no arc whose next, previous or face and no face whose arc names a
\* deleted arc or face.
EdgeRemoveStitchesNeighbours == [][EdgeRemoveStep]_vars

\* The shared edge of two triangles has been removed with both faces.
EdgeRemoveStitchesNeighboursWitness ==
    /\ last.op = "remove_edge" /\ last.err = Ok
    /\ ops = 1
    /\ Storage_len(graph.faces) = 0
    /\ Storage_len(graph.edges) = 4
    /\ Storage_len(graph.vertices) = 4

\* The vertex at the source of the arc ab has no arc but ab and its opposite.
NoOtherArcAt(ab) ==
    \/ graph.arcs[ab].previous = Opposite(ab)
    \/ graph.arcs[Opposite(ab)].next = ab

EdgeRemoveVertexStep ==
    RemoveSucceeded =>
        /\ NoOtherArcAt(CalledAB) => graph'.vertices.map[CalledAB[1]].arc = NoArc
        /\ NoOtherArcAt(CalledBA) => graph'.vertices.map[CalledBA[1]].arc = NoArc
        /\ \A v \in DOMAIN graph'.vertices.map :
               graph'.vertices.map[v].arc \notin {CalledAB, CalledBA}

\* C35: when the edge A-B is removed and an endpoint has no other arc, that
\* vertex has no leading arc after the removal, and after any edge removal
\* no vertex has a removed arc as its leading arc.
EdgeRemoveHealsLeadingArcs == [][EdgeRemoveVertexStep]_vars

\* The vertex v has a leading arc that exists and leaves v.
HasLeadingArc(g, v) ==
    /\ g.vertices.map[v].arc # NoArc
    /\ HasArc(g, g.vertices.map[v].arc)
    /\ g.vertices.map[v].arc[1] = v

EdgeSplitVertexStep ==
    SplitSucceeded =>
        /\ \A v \in {CalledAB[1], CalledAB[2], last'.val} : HasLeadingArc(graph', v)
        /\ \A v \in DOMAIN graph'.vertices.map :
               (\E x \in DOMAIN graph'.arcs : x[1] = v) => graph'.vertices.map[v].arc # NoArc

\* C37: after a successful split of the edge A-B at the new vertex M each
\* of A, B and M has a leading arc that is set, exists and leaves that
\* vertex, and every vertex that some arc leaves has a leading arc set.
EdgeSplitSetsLeadingArcs == [][EdgeSplitVertexStep]_vars

\* ------------------------------------------------------------------------
\* Arcs and edges of every committed mesh
\* ------------------------------------------------------------------------

\* C38: in every committed mesh there are twice as many arcs as edges, and
\* the arc of every edge exists and is bound to that edge.
ArcsPairedWithEdges ==
    /\ Cardinality(DOMAIN graph.arcs) = 2 * Storage_len(graph.edges)
    /\ \A e \in DOMAIN graph.edges.map :
           /\ HasArc(graph, graph.edges.map[e].arc)
           /\ graph.arcs[graph.edges.map[e].arc].edge = e

\* ------------------------------------------------------------------------
\* Properties of the Option inside a Replace
\* ------------------------------------------------------------------------

\* C39: however the life of a Replace ends (commit succeeding, commit
\* failing inside the inner commit, abort, commit_with with a failing
\* closure, drop without commit), drain() has run exactly once, the inner
\* mutation has been committed or aborted exactly once and never both, and
\* unwrap() has never met the Option already taken.
ReplaceDrainsOnce ==
    /\ ~store.unwrapped_none
    /\ store.how = "open" =>
           store.option = "some" /\ store.drains = 0 /\ store.commits + store.aborts = 0
    /\ store.how \notin {"none", "open"} =>
           /\ store.option = "none"
           /\ store.drains = 1
           /\ store.commits + store.aborts = 1
           /\ store.commits = 1 <=> store.how = "commit" \/ (store.how = "commit_with" /\ txn.out.closure.err = Ok)

\* A Replace whose inner commit failed after edits has ended.
ReplaceDrainsOnceWitness ==
    /\ store.how = "commit"
    /\ txn.out.err = TopologyMalformed
    /\ store.drains = 1 /\ store.commits = 1
    /\ Storage_len(txn.out.closure.m.vertices) > 0

\* A Replace given a closure that failed has ended.
ReplaceAbortsOnceWitness ==
    /\ store.how = "commit_with"
    /\ txn.out.closure.err # Ok
    /\ store.drains = 1 /\ store.aborts = 1

==========================================================================
